---- MODULE Spec2Model ----
(***************************************************************************)
(* Verification model of the district-consolidation estimator              *)
(* (frontend lib/consolidationV1.ts, computeConsolidationV1) and of the    *)
(* helpers it calls (clamp, milesBetween).                                 *)
(*                                                                         *)
(* Number representation.  The source computes in IEEE doubles; the model  *)
(* computes in exact integers of a fixed resolution:                       *)
(*   - a rate or share r is the integer r * RateScale (percent, the unit   *)
(*     of the sidebar sliders);                                            *)
(*   - a distance d in miles is the integer d * DistScale (1/100 mile);    *)
(*   - an unrounded currency amount x is the integer x * MoneyScale, where *)
(*     MoneyScale = DistScale * RateScale, the resolution of the product   *)
(*     dist * enr * share * cpsm;                                          *)
(*   - spokeBreakdown.cost is in whole dollars (Math.round) and            *)
(*     spokeBreakdown.distanceMiles in tenths of a mile                    *)
(*     (Math.round(dist * 10) / 10);                                       *)
(*   - a quotient is the pair [n, d] of its numerator and denominator.     *)
(* Inputs are finite numbers (values JSON can carry).                      *)
(***************************************************************************)
EXTENDS Integers, Sequences, FiniteSets, TLC

\* one call of the estimator: its arguments, its result, its position
VARIABLES selectedKeys, budgets, enrollments, anchors, params, result, pc

\* key generation: a district name and a school name, the keys the build
\* scripts store records under, the keys the frontend looks records up by
VARIABLES districtName, schoolName, normKey, scriptKey, enrollKey, builderSchoolKey,
          frontNorm, frontKey, frontSchoolKey, keyed

estVars == <<selectedKeys, budgets, enrollments, anchors, params, result, pc>>

keyVars == <<districtName, schoolName, normKey, scriptKey, enrollKey, builderSchoolKey,
             frontNorm, frontKey, frontSchoolKey, keyed>>

\* budget extraction: what one source file holds, the DistrictBudget built
\* from it, and whether processFile has run
VARIABLES file, budget, stage

budVars == <<file, budget, stage>>

\* district layers: the features of the three shapefiles, the features
\* readLayer keeps of each, the merged features, and the position of main
VARIABLES rawLayers, allByLevel, features, step

distVars == <<rawLayers, allByLevel, features, step>>

\* anchor builder: the features of districts.geojson and schools.geojson, the
\* anchors map written, and the position of main
VARIABLES districtFeatures, schoolFeatures, anchorsOut, anchorStep

anchorVars == <<districtFeatures, schoolFeatures, anchorsOut, anchorStep>>

\* grade buckets: the grade span of a school, the bucket derived from it,
\* and whether deriveGradeBucket has run
VARIABLES gradeLow, gradeHigh, gradeBucket, gradeStep

gradeVars == <<gradeLow, gradeHigh, gradeBucket, gradeStep>>

\* consolidation sandbox of the app: the selected district keys, the three
\* data maps of the app state (null until loaded), the position of each
\* loader, the sliders' parameters, the memoised estimate, what the data files
\* hold, and the last handler that ran
VARIABLES sandboxDistrictKeys, appBudgets, leaEnrollment, appAnchors,
          budgetsLoad, enrollmentLoad, anchorsLoad, consolidationParams,
          sandboxResult, served, lastEvent

sandboxVars == <<sandboxDistrictKeys, appBudgets, leaEnrollment, appAnchors,
                 budgetsLoad, enrollmentLoad, anchorsLoad, consolidationParams,
                 sandboxResult, served, lastEvent>>

\* school list of the app: whether the districts are still loading, the
\* filters and the search box, the /api/schools requests in flight, the
\* schools state, the number of requests sent and the requests that failed
VARIABLES loading, filters, searchQuery, inFlight, schools, issued, failed

listVars == <<loading, filters, searchQuery, inFlight, schools, issued, failed>>

vars == <<estVars, keyVars, budVars, distVars, anchorVars, gradeVars, sandboxVars, listVars>>

\* what an action of one component leaves alone: the other components
estOthers == <<keyVars, budVars, distVars, anchorVars, gradeVars, sandboxVars, listVars>>

keyOthers == <<estVars, budVars, distVars, anchorVars, gradeVars, sandboxVars, listVars>>

budOthers == <<estVars, keyVars, distVars, anchorVars, gradeVars, sandboxVars, listVars>>

distOthers == <<estVars, keyVars, budVars, anchorVars, gradeVars, sandboxVars, listVars>>

anchorOthers == <<estVars, keyVars, budVars, distVars, gradeVars, sandboxVars, listVars>>

gradeOthers == <<estVars, keyVars, budVars, distVars, anchorVars, sandboxVars, listVars>>

sandboxOthers == <<estVars, keyVars, budVars, distVars, anchorVars, gradeVars, listVars>>

listOthers == <<estVars, keyVars, budVars, distVars, anchorVars, gradeVars, sandboxVars>>

(***************************************************************************)
(* Bounds of the model.                                                    *)
(***************************************************************************)
\* most /api/schools requests the app sends in a run
MaxRequests == 3

\* longest selectedKeys list handed to the estimator
MaxSel == 3

\* most pieces a district name is made of
MaxChunks == 3

\* largest total expenditure and largest component amount of a source file
MaxTotal == 21

MaxComponent == 4

\* largest number of features in the three shapefiles together
MaxFeatures == 3

\* largest number of features in schools.geojson
MaxSchools == 3

\* lowest and highest grade number of a school
MinGrade == -2

MaxGrade == 13

(***************************************************************************)
(* Resolutions.                                                            *)
(***************************************************************************)
\* rates and shares are held in percent: the sliders set value / 100
RateScale == 100

\* distances are held in hundredths of a mile
DistScale == 100

MoneyScale == DistScale * RateScale

\* 3958.8 * pi / 180 = 69.09 miles per degree of latitude, i.e. 6.91 miles
\* (691 hundredths) per tenth of a degree, the unit of an anchor's lat
MilesPerLatUnit == 691

(***************************************************************************)
(* Math helpers.                                                           *)
(***************************************************************************)
Max2(a, b) == IF a >= b THEN a ELSE b

Min2(a, b) == IF a <= b THEN a ELSE b

Abs(a) == IF a < 0 THEN -a ELSE a

\* Math.round(n / scale): the nearest integer, halves rounded up
MathRound(n, scale) == (2 * n + scale) \div (2 * scale)

\* variant without the upper limit (Math.max(lo, v))
clampNoUpper(v, lo, hi) == Max2(lo, v)

\* function clamp(v, lo, hi) { return Math.max(lo, Math.min(hi, v)); }
clamp(v, lo, hi) == Max2(lo, Min2(hi, v))

\* milesBetween for two points on one meridian (a.lon = b.lon), where the
\* haversine distance is the arc R * |dLat|; the result is in 1/DistScale mile
milesBetween(a, b) == MilesPerLatUnit * Abs(b.lat - a.lat)

(***************************************************************************)
(* Sequence helpers.                                                       *)
(***************************************************************************)
InSeq(x, s) == \E i \in 1..Len(s) : s[i] = x

\* variant keeping repeated keys
KeepRepeats(s) == s

\* [...new Set(selectedKeys)]: the distinct keys in order of first occurrence
RECURSIVE Distinct(_)
Distinct(s) ==
  IF s = <<>> THEN <<>>
  ELSE LET front == Distinct(SubSeq(s, 1, Len(s) - 1))
           last  == s[Len(s)]
       IN  IF InSeq(last, front) THEN front ELSE Append(front, last)

\* one step of the stable sort: x goes after every entry e with cmp(e, x) <= 0,
\* where cmp(a, b) = b.cost - a.cost
RECURSIVE SortInsert(_, _)
SortInsert(sorted, x) ==
  IF sorted = <<>> THEN <<x>>
  ELSE IF x.cost - Head(sorted).cost <= 0
       THEN <<Head(sorted)>> \o SortInsert(Tail(sorted), x)
       ELSE <<x>> \o sorted

\* variant leaving the breakdown in selection order
Unsorted(s) == s

\* spokeBreakdown.sort((a, b) => b.cost - a.cost): stable, descending by cost
RECURSIVE SortByCostDesc(_)
SortByCostDesc(s) ==
  IF s = <<>> THEN <<>>
  ELSE SortInsert(SortByCostDesc(SubSeq(s, 1, Len(s) - 1)), s[Len(s)])

(***************************************************************************)
(* Record lookups: m[k] is undefined when k is no key of m.                *)
(***************************************************************************)
Has(m, k) == k \in DOMAIN m

\* variant accepting a total of 0 (e.total < 0 for e.total <= 0, no !e.total)
BadEnrollmentZeroOk(enr, k) ==
  \/ ~Has(enr, k)
  \/ "total" \notin DOMAIN enr[k]
  \/ enr[k].total < 0

\* !e || !e.total || e.total <= 0
BadEnrollment(enr, k) ==
  \/ ~Has(enr, k)
  \/ "total" \notin DOMAIN enr[k]
  \/ enr[k].total = 0
  \/ enr[k].total <= 0

(***************************************************************************)
(* Result values.                                                          *)
(***************************************************************************)
\* the quotient num / den, kept as its two terms
Quot(num, den) == [n |-> num, d |-> den]

\* the number 0 in a field that otherwise holds a quotient
ZeroQuot == Quot(0, 1)

\* variant dividing whatever the denominator
safePctUnguarded(num, den) == Quot(num, den)

\* const safePct = (num, den) => (den > 0 ? num / den : 0)
safePct(num, den) == IF den > 0 THEN Quot(num, den) ELSE ZeroQuot

\* an entry of warnings: the literal 'Select at least 2 districts', a budget
\* flag `${displayName}: ${f}`, or a distance note
\* `${displayName}: distance ${dist.toFixed(1)} mi seems high` (tenths of a mile)
SelectWarning == [kind |-> "select", name |-> "", flag |-> "", tenths |-> 0]

FlagWarning(displayName, f) ==
  [kind |-> "flag", name |-> displayName, flag |-> f, tenths |-> 0]

DistanceWarning(displayName, dist) ==
  [kind |-> "distance", name |-> displayName, flag |-> "",
   tenths |-> MathRound(dist * 10, DistScale)]

NoMissing == [budgets |-> <<>>, enrollment |-> <<>>, anchors |-> <<>>]

\* const empty: ConsolidationResultV1 = { ... ok: false }
empty ==
  [hubKey |-> "", hubName |-> "", combinedEnrollment |-> 0, combinedSpending |-> 0,
   hubSpending |-> 0, spokesSpending |-> 0,
   baselinePerPupil |-> ZeroQuot, adminBaselineHub |-> 0, adminBaselineSpokes |-> 0,
   adminSavings |-> 0, transportationIncrease |-> 0, netImpact |-> 0,
   projectedSpending |-> 0, projectedPerPupil |-> ZeroQuot,
   adminSavingsPctCombined |-> ZeroQuot, transportIncreasePctCombined |-> ZeroQuot,
   netImpactPctCombined |-> ZeroQuot,
   adminSavingsPctSpokesSpending |-> ZeroQuot,
   transportIncreasePctSpokesSpending |-> ZeroQuot,
   netImpactPctSpokesSpending |-> ZeroQuot,
   spokeBreakdown |-> <<>>,
   warnings |-> <<>>, missing |-> NoMissing, ok |-> FALSE]

(***************************************************************************)
(* computeConsolidationV1, loop by loop.                                   *)
(***************************************************************************)
\* if (!b) missingBudgets.push(k)
MissingBudgets(unique, bud) == SelectSeq(unique, LAMBDA k : ~Has(bud, k))

\* if (!e || !e.total || e.total <= 0) missingEnrollment.push(k)
MissingEnrollment(unique, enr) == SelectSeq(unique, LAMBDA k : BadEnrollment(enr, k))

\* variant without the anchor check
MissingAnchorsUnchecked(unique, anc) == <<>>

\* variant that stops recording at the first key without anchor
MissingAnchorsFirstOnly(unique, anc) ==
  LET all == SelectSeq(unique, LAMBDA k : ~Has(anc, k))
  IN  IF all = <<>> THEN <<>> ELSE <<Head(all)>>

\* if (!a) missingAnchors.push(k)
MissingAnchors(unique, anc) == SelectSeq(unique, LAMBDA k : ~Has(anc, k))

\* variant pushing only the first flag of a budget
FlagsOfFirstOnly(b) ==
  IF b.flags = <<>> THEN <<>> ELSE <<FlagWarning(b.displayName, b.flags[1])>>

\* for (const f of b.flags) warnings.push(`${b.displayName}: ${f}`)
FlagsOf(b) == [i \in 1..Len(b.flags) |-> FlagWarning(b.displayName, b.flags[i])]

\* the warnings accumulated by the first loop over unique
RECURSIVE FlagWarnings(_, _)
FlagWarnings(unique, bud) ==
  IF unique = <<>> THEN <<>>
  ELSE LET k == Head(unique)
       IN  (IF Has(bud, k) THEN FlagsOf(bud[k]) ELSE <<>>)
             \o FlagWarnings(Tail(unique), bud)

\* variant of the hub loop comparing with >= (the last maximum wins)
RECURSIVE HubLoopLastMax(_, _, _, _)
HubLoopLastMax(rest, enr, hubKey, hubEnroll) ==
  IF rest = <<>> THEN hubKey
  ELSE LET k     == Head(rest)
           total == enr[k].total
       IN  IF total >= hubEnroll
           THEN HubLoopLastMax(Tail(rest), enr, k, total)
           ELSE HubLoopLastMax(Tail(rest), enr, hubKey, hubEnroll)

\* let hubKey = unique[0]; let hubEnroll = 0;
\* for (const k of unique) if (total > hubEnroll) { hubEnroll = total; hubKey = k; }
RECURSIVE HubLoop(_, _, _, _)
HubLoop(rest, enr, hubKey, hubEnroll) ==
  IF rest = <<>> THEN hubKey
  ELSE LET k     == Head(rest)
           total == enr[k].total
       IN  IF total > hubEnroll
           THEN HubLoop(Tail(rest), enr, k, total)
           ELSE HubLoop(Tail(rest), enr, hubKey, hubEnroll)

\* variant taking the first selected key as the hub
PickHubFirst(unique, enr) == unique[1]

PickHub(unique, enr) == HubLoop(unique, enr, unique[1], 0)

\* combinedEnrollment += enrollments[k].total
RECURSIVE SumEnrollment(_, _)
SumEnrollment(unique, enr) ==
  IF unique = <<>> THEN 0
  ELSE enr[Head(unique)].total + SumEnrollment(Tail(unique), enr)

\* variant leaving the first selected district out of the spending sum
RECURSIVE SumSpendingSkipFirst(_, _)
SumSpendingSkipFirst(unique, bud) ==
  IF Len(unique) <= 1 THEN 0
  ELSE bud[unique[Len(unique)]].totalExpenditures * MoneyScale
         + SumSpendingSkipFirst(SubSeq(unique, 1, Len(unique) - 1), bud)

\* combinedSpending += budgets[k].totalExpenditures
RECURSIVE SumSpending(_, _)
SumSpending(unique, bud) ==
  IF unique = <<>> THEN 0
  ELSE bud[Head(unique)].totalExpenditures * MoneyScale
         + SumSpending(Tail(unique), bud)

\* variant adding the hub's admin figure too
RECURSIVE SumAllAdmin(_, _, _)
SumAllAdmin(unique, bud, hubKey) ==
  IF unique = <<>> THEN 0
  ELSE bud[Head(unique)].centralAdministrationModel * MoneyScale
         + SumAllAdmin(Tail(unique), bud, hubKey)

\* if (k !== hubKey) adminBaselineSpokes += budgets[k].centralAdministrationModel
RECURSIVE SumSpokeAdmin(_, _, _)
SumSpokeAdmin(unique, bud, hubKey) ==
  IF unique = <<>> THEN 0
  ELSE (IF Head(unique) # hubKey
        THEN bud[Head(unique)].centralAdministrationModel * MoneyScale
        ELSE 0)
         + SumSpokeAdmin(Tail(unique), bud, hubKey)

\* variant whose spoke loop does not skip the hub
SpokesWithHub(unique, hubKey) == unique

\* for (const k of unique) { if (k === hubKey) continue; ... }
Spokes(unique, hubKey) == SelectSeq(unique, LAMBDA k : k # hubKey)

\* const dist = milesBetween(anchors[k], hubAnchor)
SpokeDist(k, anc, hubKey) == milesBetween(anc[k], anc[hubKey])

\* variant leaving affectedShare out of the product
SpokeCostFullShare(k, enr, anc, hubKey, share, cpsm) ==
  SpokeDist(k, anc, hubKey) * enr[k].total * RateScale * cpsm

\* const cost = dist * enr * share * cpsm
SpokeCost(k, enr, anc, hubKey, share, cpsm) ==
  SpokeDist(k, anc, hubKey) * enr[k].total * share * cpsm

\* transportationIncrease += cost
RECURSIVE SumCost(_, _, _, _, _, _)
SumCost(spokes, enr, anc, hubKey, share, cpsm) ==
  IF spokes = <<>> THEN 0
  ELSE SpokeCost(Head(spokes), enr, anc, hubKey, share, cpsm)
         + SumCost(Tail(spokes), enr, anc, hubKey, share, cpsm)

\* spokeBreakdown.push({ key, name, enrollment, distanceMiles, cost })
SpokeDetail(k, enr, anc, hubKey, share, cpsm) ==
  [key |-> k,
   name |-> anc[k].displayName,
   enrollment |-> enr[k].total,
   distanceMiles |-> MathRound(SpokeDist(k, anc, hubKey) * 10, DistScale),
   cost |-> MathRound(SpokeCost(k, enr, anc, hubKey, share, cpsm), MoneyScale)]

\* variant comparing kilometres with the 60-mile limit
RECURSIVE DistanceWarningsKm(_, _, _)
DistanceWarningsKm(spokes, anc, hubKey) ==
  IF spokes = <<>> THEN <<>>
  ELSE LET k    == Head(spokes)
           dist == SpokeDist(k, anc, hubKey)
       IN  (IF dist * 1609 > 60 * DistScale * 1000
            THEN <<DistanceWarning(anc[k].displayName, dist)>>
            ELSE <<>>)
             \o DistanceWarningsKm(Tail(spokes), anc, hubKey)

\* if (dist > 60) warnings.push(...)
RECURSIVE DistanceWarnings(_, _, _)
DistanceWarnings(spokes, anc, hubKey) ==
  IF spokes = <<>> THEN <<>>
  ELSE LET k    == Head(spokes)
           dist == SpokeDist(k, anc, hubKey)
       IN  (IF dist > 60 * DistScale
            THEN <<DistanceWarning(anc[k].displayName, dist)>>
            ELSE <<>>)
             \o DistanceWarnings(Tail(spokes), anc, hubKey)

\* spokeBreakdown after the loop and the sort
Breakdown(spokes, enr, anc, hubKey, share, cpsm) ==
  SortByCostDesc([i \in 1..Len(spokes) |->
                    SpokeDetail(spokes[i], enr, anc, hubKey, share, cpsm)])

\* variant rounding the headline figure to whole dollars
NetImpactRounded(adminSavings, transportationIncrease) ==
  MathRound(adminSavings - transportationIncrease, MoneyScale) * MoneyScale

\* const netImpact = adminSavings - transportationIncrease
NetImpact(adminSavings, transportationIncrease) ==
  adminSavings - transportationIncrease

\* const projectedSpending = combinedSpending - netImpact
ProjectedSpending(combinedSpending, netImpact) == combinedSpending - netImpact

\* the clamped parameters; rate and share are in 1/RateScale
ClampRate(p) == clamp(p.adminReductionRate, 0, RateScale)

ClampCpsm(p) == Max2(0, p.costPerStudentMile)

ClampShare(p) == clamp(p.affectedShare, 0, RateScale)

\* the ok: true result
Populated(unique, bud, enr, anc, rate, cpsm, share, flagWarnings) ==
  LET hubKey == PickHub(unique, enr)
      hubAnchor == anc[hubKey]
      hubBudget == bud[hubKey]
      combinedEnrollment == SumEnrollment(unique, enr)
      combinedSpending == SumSpending(unique, bud)
      adminBaselineSpokes == SumSpokeAdmin(unique, bud, hubKey)
      adminBaselineHub == hubBudget.centralAdministrationModel * MoneyScale
      baselinePerPupil ==
        IF combinedEnrollment > 0
        THEN Quot(combinedSpending, combinedEnrollment) ELSE ZeroQuot
      \* rate * adminBaselineSpokes, rate being rate / RateScale
      adminSavings == (rate * adminBaselineSpokes) \div RateScale
      spokes == Spokes(unique, hubKey)
      transportationIncrease == SumCost(spokes, enr, anc, hubKey, share, cpsm)
      netImpact == NetImpact(adminSavings, transportationIncrease)
      projectedSpending == ProjectedSpending(combinedSpending, netImpact)
      projectedPerPupil ==
        IF combinedEnrollment > 0
        THEN Quot(projectedSpending, combinedEnrollment) ELSE ZeroQuot
      hubSpending == hubBudget.totalExpenditures * MoneyScale
      spokesSpending == combinedSpending - hubSpending
  IN  [hubKey |-> hubKey,
       hubName |-> hubAnchor.displayName,
       combinedEnrollment |-> combinedEnrollment,
       combinedSpending |-> combinedSpending,
       hubSpending |-> hubSpending,
       spokesSpending |-> spokesSpending,
       baselinePerPupil |-> baselinePerPupil,
       adminBaselineHub |-> adminBaselineHub,
       adminBaselineSpokes |-> adminBaselineSpokes,
       adminSavings |-> adminSavings,
       transportationIncrease |-> transportationIncrease,
       netImpact |-> netImpact,
       projectedSpending |-> projectedSpending,
       projectedPerPupil |-> projectedPerPupil,
       adminSavingsPctCombined |-> safePct(adminSavings, combinedSpending),
       transportIncreasePctCombined |-> safePct(transportationIncrease, combinedSpending),
       netImpactPctCombined |-> safePct(netImpact, combinedSpending),
       adminSavingsPctSpokesSpending |-> safePct(adminSavings, spokesSpending),
       transportIncreasePctSpokesSpending |->
         safePct(transportationIncrease, spokesSpending),
       netImpactPctSpokesSpending |-> safePct(netImpact, spokesSpending),
       spokeBreakdown |-> Breakdown(spokes, enr, anc, hubKey, share, cpsm),
       warnings |-> flagWarnings \o DistanceWarnings(spokes, anc, hubKey),
       missing |-> NoMissing,
       ok |-> TRUE]

\* variant with the bound off by one (unique.length < 1)
TooFewOffByOne(unique) == Len(unique) < 1

\* if (unique.length < 2)
TooFew(unique) == Len(unique) < 2

\* export function computeConsolidationV1(selectedKeys, budgets, enrollments,
\*                                        anchors, params)
computeConsolidationV1(sel, bud, enr, anc, p) ==
  LET rate == ClampRate(p)
      cpsm == ClampCpsm(p)
      share == ClampShare(p)
      unique == Distinct(sel)
      missingBudgets == MissingBudgets(unique, bud)
      missingEnrollment == MissingEnrollment(unique, enr)
      missingAnchors == MissingAnchors(unique, anc)
      warnings == FlagWarnings(unique, bud)
  IN  IF TooFew(unique)
      THEN [empty EXCEPT !.warnings = <<SelectWarning>>]
      ELSE IF \/ Len(missingBudgets) # 0
              \/ Len(missingEnrollment) # 0
              \/ Len(missingAnchors) # 0
      THEN [empty EXCEPT !.warnings = warnings,
                         !.missing = [budgets |-> missingBudgets,
                                      enrollment |-> missingEnrollment,
                                      anchors |-> missingAnchors]]
      ELSE Populated(unique, bud, enr, anc, rate, cpsm, share, warnings)

\* a TypeError in the ok: true branch: it reads enrollments[k].total,
\* budgets[k].totalExpenditures, budgets[k].centralAdministrationModel,
\* anchors[k].lat, anchors[k].lon and anchors[k].displayName of every distinct
\* key, which throws when the record is undefined
Raises(sel, bud, enr, anc) ==
  LET unique == Distinct(sel)
  IN  /\ ~TooFew(unique)
      /\ Len(MissingBudgets(unique, bud)) = 0
      /\ Len(MissingEnrollment(unique, enr)) = 0
      /\ Len(MissingAnchors(unique, anc)) = 0
      /\ \E i \in 1..Len(unique) :
           ~Has(bud, unique[i]) \/ ~Has(enr, unique[i]) \/ ~Has(anc, unique[i])

(***************************************************************************)
(* Inputs.  The estimator reads only the records of the selected keys, so  *)
(* a data set is a triple of maps over Keys whose records cover the cases  *)
(* of the code: complete districts (with equal and with different          *)
(* enrollment totals, near and far anchors, with and without flags) and    *)
(* districts lacking a budget, an anchor, an enrollment record, or a       *)
(* positive enrollment total.                                              *)
(***************************************************************************)
Keys == {"k1", "k2", "k3", "k4"}

Budget(name, total, adminModel, flags) ==
  [displayName |-> name, totalExpenditures |-> total,
   centralAdministrationModel |-> adminModel, flags |-> flags]

Anchor(name, lat) == [displayName |-> name, lat |-> lat, lon |-> -715]

\* every district complete; k1 and k2 share the largest enrollment total
DataComplete ==
  [budgets |->
     [k \in Keys |->
        CASE k = "k1" -> Budget("K1 Public Schools", 1000, 40, <<>>)
          [] k = "k2" -> Budget("K2 School District", 800, 30,
                                <<"admin_share_outlier", "admin_share_capped_model">>)
          [] k = "k3" -> Budget("K3", 300, 20, <<"district_management_negative">>)
          [] k = "k4" -> Budget("K4 Regional", 500, 10, <<"no_detail2_column">>)],
   enrollments |->
     [k \in Keys |->
        CASE k = "k1" -> [total |-> 5]
          [] k = "k2" -> [total |-> 5]
          [] k = "k3" -> [total |-> 2]
          [] k = "k4" -> [total |-> 3]],
   anchors |->
     [k \in Keys |->
        CASE k = "k1" -> Anchor("K1", 404)
          [] k = "k2" -> Anchor("K2", 413)
          [] k = "k3" -> Anchor("K3", 412)
          [] k = "k4" -> Anchor("K4", 421)]]

\* k1 and k2 complete, with no recorded spending and a negative admin figure;
\* k3 without budget and with a negative total; k4 with no total at all
DataSparse ==
  [budgets |->
     [k \in {"k1", "k2", "k4"} |->
        CASE k = "k1" -> Budget("K1 Public Schools", 0, -10, <<"total_expenditures_missing_or_zero">>)
          [] k = "k2" -> Budget("K2 School District", 0, 25, <<>>)
          [] k = "k4" -> Budget("K4 Regional", 500, 10, <<"no_detail2_column">>)],
   enrollments |->
     [k \in Keys |->
        CASE k = "k1" -> [total |-> 2]
          [] k = "k2" -> [total |-> 7]
          [] k = "k3" -> [total |-> -3]
          [] k = "k4" -> [elem_enrollment |-> 4]],
   anchors |->
     [k \in Keys |->
        CASE k = "k1" -> Anchor("K1", 410)
          [] k = "k2" -> Anchor("K2", 419)
          [] k = "k3" -> Anchor("K3", 411)
          [] k = "k4" -> Anchor("K4", 420)]]

\* k1 complete; k2 without anchor; k3 with total 0; k4 in none of the maps
DataMissing ==
  [budgets |->
     [k \in {"k1", "k2", "k3"} |->
        CASE k = "k1" -> Budget("K1 Public Schools", 1000, 40, <<>>)
          [] k = "k2" -> Budget("K2 School District", 800, 30, <<"admin_share_outlier">>)
          [] k = "k3" -> Budget("K3", 300, 20, <<>>)],
   enrollments |->
     [k \in {"k1", "k2", "k3"} |->
        CASE k = "k1" -> [total |-> 5]
          [] k = "k2" -> [total |-> 6]
          [] k = "k3" -> [total |-> 0]],
   anchors |->
     [k \in {"k1", "k3"} |->
        CASE k = "k1" -> Anchor("K1", 410)
          [] k = "k3" -> Anchor("K3", 411)]]

DataSets == {DataComplete, DataSparse, DataMissing}

\* the selectedKeys lists of at most MaxSel keys, repetitions allowed
Selections == UNION {[1..n -> Keys] : n \in 0..MaxSel}

\* caller-supplied parameters, in and out of range (rates in 1/RateScale)
ParamSet ==
  [adminReductionRate : {-RateScale, 0, RateScale \div 2, RateScale, 5 * RateScale},
   costPerStudentMile : {-1, 0, 3},
   affectedShare : {-(RateScale \div 2), RateScale \div 2, (3 * RateScale) \div 2}]

\* no key is being generated
KeysIdle ==
  /\ districtName = <<>> /\ schoolName = <<>>
  /\ normKey = <<>> /\ scriptKey = <<>> /\ enrollKey = <<>>
  /\ builderSchoolKey = <<>>
  /\ frontNorm = <<>> /\ frontKey = <<>> /\ frontSchoolKey = <<>>
  /\ keyed = {}

\* no estimate is being computed
EstimatorIdle ==
  /\ selectedKeys = <<>>
  /\ budgets = DataComplete.budgets
  /\ enrollments = DataComplete.enrollments
  /\ anchors = DataComplete.anchors
  /\ params = [adminReductionRate |-> RateScale, costPerStudentMile |-> 3,
               affectedShare |-> RateScale]
  /\ result = empty
  /\ pc = "idle"

\* no budget file is being processed
BudgetIdle ==
  /\ file = [outcome |-> "unreadable"]
  /\ budget = <<>>
  /\ stage = "idle"

\* no district layer is being merged
DistrictsIdle ==
  /\ rawLayers = <<>>
  /\ allByLevel = <<>>
  /\ features = <<>>
  /\ step = "idle"

\* no anchors are being built
AnchorsIdle ==
  /\ districtFeatures = <<>>
  /\ schoolFeatures = <<>>
  /\ anchorsOut = <<>>
  /\ anchorStep = "idle"

\* no grade bucket is being derived
GradesIdle ==
  /\ gradeLow = <<>>
  /\ gradeHigh = <<>>
  /\ gradeBucket = ""
  /\ gradeStep = "idle"

\* the sandbox is not in use
SandboxIdle ==
  /\ sandboxDistrictKeys = <<>>
  /\ appBudgets = <<>> /\ leaEnrollment = <<>> /\ appAnchors = <<>>
  /\ budgetsLoad = "idle" /\ enrollmentLoad = "idle" /\ anchorsLoad = "idle"
  /\ consolidationParams = <<>>
  /\ sandboxResult = <<>>
  /\ served = <<>>
  /\ lastEvent = <<>>

\* the school list is not in use
ListIdle ==
  /\ loading = FALSE
  /\ filters = <<>>
  /\ searchQuery = <<>>
  /\ inFlight = {}
  /\ schools = <<>>
  /\ issued = 0
  /\ failed = {}

\* every component but c is idle
OthersIdle(c) ==
  /\ c # "estimator" => EstimatorIdle
  /\ c # "keys" => KeysIdle
  /\ c # "budget" => BudgetIdle
  /\ c # "districts" => DistrictsIdle
  /\ c # "anchors" => AnchorsIdle
  /\ c # "grades" => GradesIdle
  /\ c # "sandbox" => SandboxIdle
  /\ c # "list" => ListIdle

(***************************************************************************)
(* The estimator as a state machine: the inputs of one call, then the      *)
(* call.                                                                   *)
(***************************************************************************)
Init ==
  /\ \E d \in DataSets :
       /\ budgets = d.budgets
       /\ enrollments = d.enrollments
       /\ anchors = d.anchors
  /\ selectedKeys \in Selections
  /\ params \in ParamSet
  /\ result = empty
  /\ pc = "ready"
  /\ OthersIdle("estimator")

\* one call of computeConsolidationV1: it returns a result, or throws
Compute ==
  /\ pc = "ready"
  /\ IF Raises(selectedKeys, budgets, enrollments, anchors)
     THEN /\ result' = result
          /\ pc' = "raised"
     ELSE /\ result' = computeConsolidationV1(selectedKeys, budgets, enrollments,
                                             anchors, params)
          /\ pc' = "done"
  /\ UNCHANGED <<selectedKeys, budgets, enrollments, anchors, params>>
  /\ UNCHANGED estOthers

Next == Compute

Spec == Init /\ [][Next]_vars

(***************************************************************************)
(* Key generation (scripts lib/normalize.ts, frontend lib/enrollment.ts).  *)
(*                                                                         *)
(* A string is a sequence of tokens.  A token is one whitespace character  *)
(* (" ", "\t"), one punctuation character ("&", "-", "(", ")", ".", "|") *)
(* or a run of letters ("Foo", "school").  Letter runs that stand next to  *)
(* each other with nothing in between read as one word ("foo" "bar" is     *)
(* foobar).  No letter run used here is the end of another one, so a       *)
(* string ends with the text of a suffix exactly when its tokens end with  *)
(* the tokens of the suffix.                                               *)
(***************************************************************************)
IsSpace(c) == c \in {" ", "\t"}

IsPunct(c) == c \in {"&", "-", "(", ")", ".", "|"}

\* \w: letters (digits and _ do not occur in the names of the model)
IsWord(c) == ~IsSpace(c) /\ ~IsPunct(c)

\* the capitalised words of the names, and their lower-case forms
LowerCased ==
  [Foo |-> "foo", Bar |-> "bar", School |-> "school",
   District |-> "district", Regional |-> "regional", Public |-> "public",
   Schools |-> "schools", Elementary |-> "elementary",
   Secondary |-> "secondary", Bistol |-> "bistol", Warren |-> "warren",
   Not |-> "not", Defined |-> "defined", Unknown |-> "unknown",
   Exeter |-> "exeter", West |-> "west", Greenwich |-> "greenwich",
   Foster |-> "foster", High |-> "high", Academy |-> "academy",
   Middle |-> "middle", Primary |-> "primary", Baz |-> "baz",
   Private |-> "private", Qux |-> "qux", Quux |-> "quux"]

\* String.prototype.toLowerCase on one token
LowerToken(c) == IF c \in DOMAIN LowerCased THEN LowerCased[c] ELSE c

\* s.toLowerCase()
ToLowerCase(s) == [i \in 1..Len(s) |-> LowerToken(s[i])]

\* s.trim()
Trim(s) ==
  LET solid == {i \in 1..Len(s) : ~IsSpace(s[i])}
  IN  IF solid = {} THEN <<>>
      ELSE SubSeq(s, CHOOSE i \in solid : \A j \in solid : i <= j,
                     CHOOSE i \in solid : \A j \in solid : i >= j)

\* the pieces of a list of strings, joined
RECURSIVE Join(_)
Join(parts) == IF parts = <<>> THEN <<>> ELSE Head(parts) \o Join(Tail(parts))

\* first and last position of the whitespace run that holds position i
RunStart(s, i) == CHOOSE a \in 1..i :
                    /\ \A k \in a..i : IsSpace(s[k])
                    /\ a = 1 \/ ~IsSpace(s[a - 1])

RunEnd(s, i) == CHOOSE b \in i..Len(s) :
                  /\ \A k \in i..b : IsSpace(s[k])
                  /\ b = Len(s) \/ ~IsSpace(s[b + 1])

\* the whitespace at i belongs to a match of /\s*&\s*/
BesideAmp(s, i) ==
  /\ IsSpace(s[i])
  /\ \/ RunEnd(s, i) < Len(s) /\ s[RunEnd(s, i) + 1] = "&"
     \/ RunStart(s, i) > 1 /\ s[RunStart(s, i) - 1] = "&"

\* .replace(/\s*&\s*/g, ' and '); a string without '&' has no match and
\* is returned as it is
ReplaceAmp(s) ==
  IF \A i \in 1..Len(s) : s[i] # "&" THEN s
  ELSE Join([i \in 1..Len(s) |->
               IF s[i] = "&" THEN <<" ", "and", " ">>
               ELSE IF BesideAmp(s, i) THEN <<>>
               ELSE <<s[i]>>])

\* .replace(/[-–—]/g, ' ')  (the names of the model use the hyphen)
ReplaceDash(s) == [i \in 1..Len(s) |-> IF s[i] = "-" THEN " " ELSE s[i]]

\* variant without the punctuation step
KeepPunct(s) == s

\* variant whose punctuation step leaves the parentheses in place
StripPunctKeepParens(s) ==
  SelectSeq(s, LAMBDA c : IsWord(c) \/ IsSpace(c) \/ c = "(" \/ c = ")")

\* .replace(/[^\w\s]/g, '')
StripPunct(s) == SelectSeq(s, LAMBDA c : IsWord(c) \/ IsSpace(c))

\* .replace(/\s*\([^)]*\)\s*/g, ' '): the leftmost '(' that has a ')' after
\* it, up to the first such ')', with the whitespace around both, becomes ' '
RECURSIVE StripParens(_)
StripParens(s) ==
  LET opens == {i \in 1..Len(s) :
                  s[i] = "(" /\ \E j \in (i + 1)..Len(s) : s[j] = ")"}
  IN  IF opens = {} THEN s
      ELSE LET open  == CHOOSE i \in opens : \A j \in opens : i <= j
               close == CHOOSE j \in (open + 1)..Len(s) :
                          /\ s[j] = ")"
                          /\ \A k \in (open + 1)..(j - 1) : s[k] # ")"
               from  == IF open > 1 /\ IsSpace(s[open - 1])
                        THEN RunStart(s, open - 1) ELSE open
               to    == IF close < Len(s) /\ IsSpace(s[close + 1])
                        THEN RunEnd(s, close + 1) ELSE close
           IN  SubSeq(s, 1, from - 1) \o <<" ">>
                 \o StripParens(SubSeq(s, to + 1, Len(s)))

\* .replace(/\s+/g, ' ')
CollapseSpace(s) ==
  Join([i \in 1..Len(s) |->
          IF ~IsSpace(s[i]) THEN <<s[i]>>
          ELSE IF i > 1 /\ IsSpace(s[i - 1]) THEN <<>>
          ELSE <<" ">>])

\* the chain of replacements of lines 8-16, in the order of the source
Clean(s) ==
  Trim(CollapseSpace(StripParens(StripPunct(ReplaceDash(ReplaceAmp(
    Trim(ToLowerCase(s))))))))

\* t.endsWith(suf)
EndsWith(t, suf) ==
  /\ Len(t) >= Len(suf)
  /\ SubSeq(t, Len(t) - Len(suf) + 1, Len(t)) = suf

\* const suffixes = [' regional school district', ' school district',
\*                   ' public schools']
suffixes ==
  << <<" ", "regional", " ", "school", " ", "district">>,
     <<" ", "school", " ", "district">>,
     <<" ", "public", " ", "schools">> >>

\* const levelSuffixes = [' elementary', ' secondary']
levelSuffixes == << <<" ", "elementary">>, <<" ", "secondary">> >>

\* variant without the break: every matching suffix of the list is stripped
RECURSIVE StripEveryMatch(_, _)
StripEveryMatch(t, sufs) ==
  IF sufs = <<>> THEN t
  ELSE IF EndsWith(t, Head(sufs))
       THEN StripEveryMatch(Trim(SubSeq(t, 1, Len(t) - Len(Head(sufs)))), Tail(sufs))
       ELSE StripEveryMatch(t, Tail(sufs))

\* for (const suf of sufs)
\*   if (t.endsWith(suf)) { t = t.slice(0, -suf.length).trim(); break; }
RECURSIVE StripFirstMatch(_, _)
StripFirstMatch(t, sufs) ==
  IF sufs = <<>> THEN t
  ELSE IF EndsWith(t, Head(sufs))
       THEN Trim(SubSeq(t, 1, Len(t) - Len(Head(sufs))))
       ELSE StripFirstMatch(t, Tail(sufs))

\* the first loop, over suffixes
StripOrgSuffix(t) == StripFirstMatch(t, suffixes)

\* the second loop, over levelSuffixes
StripLevelSuffix(t) == StripFirstMatch(t, levelSuffixes)

\* export function normalizeDistrictName(s)   (scripts lib/normalize.ts)
normalizeDistrictName(s) ==
  IF s = <<>> THEN <<>> ELSE StripLevelSuffix(StripOrgSuffix(Clean(s)))

\* export function normalizeForKey(s)   (frontend lib/enrollment.ts), the same
\* statements as normalizeDistrictName
normalizeForKey(s) ==
  IF s = <<>> THEN <<>> ELSE StripLevelSuffix(StripOrgSuffix(Clean(s)))

\* scripts: DISTRICT_ALIASES = { 'bistol warren regional district': 'bristol warren' }
ScriptAliases ==
  [k \in {<<"bistol", " ", "warren", " ", "regional", " ", "district">>} |->
     <<"bristol", " ", "warren">>]

\* frontend: const DISTRICT_ALIASES = {}
FrontendAliases == [k \in {} |-> <<>>]

\* DISTRICT_ALIASES[k] ?? k
Alias(table, k) == IF k \in DOMAIN table THEN table[k] ELSE k

\* scripts: export function districtKey(name)
scriptDistrictKey(n) == Alias(ScriptAliases, normalizeDistrictName(n))

\* frontend: export function districtKey(name)
districtKey(n) == Alias(FrontendAliases, normalizeForKey(n))

\* the separator '||'
Separator == <<"|", "|">>

\* frontend: export function schoolKey(districtName, schoolName)
schoolKey(d, sch) == districtKey(d) \o Separator \o normalizeForKey(sch)

\* build-enrollment: const key = normalize(distname) + '||' + normalize(schname)
builderKey(d, sch) ==
  normalizeDistrictName(d) \o Separator \o normalizeDistrictName(sch)

(***************************************************************************)
(* Names.  A name is made of at most MaxChunks pieces.                     *)
(***************************************************************************)
Chunks ==
  { <<"Foo">>,
    <<"Bistol", "-", "Warren", " ", "Regional", " ", "District">>,
    <<" ", "Regional", " ", "School", " ", "District">>,
    <<" ", "School", " ", "District">>,
    <<" ", "Public", " ", "Schools">>,
    <<" ", "Elementary">>,
    <<" ", "Secondary">>,
    <<" ", "&", "\t">>,
    <<"-">>,
    <<" ", "(", "Bar", ".", ")">>,
    <<"|">>,
    <<" ">> }

Names == {Join(cs) : cs \in UNION {[1..n -> Chunks] : n \in 0..MaxChunks}}

SchoolNames ==
  { <<"Foo", " ", "Elementary">>,
    <<"Bar", "|", "|", "Foo", " ", "School">> }

(***************************************************************************)
(* Key generation as a state machine: a district name and a school name,   *)
(* keyed once by the build scripts and once by the frontend, in either     *)
(* order.                                                                  *)
(***************************************************************************)
InitKeys ==
  /\ districtName \in Names
  /\ schoolName \in SchoolNames
  /\ normKey = <<>> /\ scriptKey = <<>> /\ enrollKey = <<>>
  /\ builderSchoolKey = <<>>
  /\ frontNorm = <<>> /\ frontKey = <<>> /\ frontSchoolKey = <<>>
  /\ keyed = {}
  /\ OthersIdle("keys")

\* the build scripts key the records of the district: budgets, anchors and
\* centroids under districtKey(districtName), enrollment under normalize(distname),
\* school enrollment under normalize(distname) + '||' + normalize(schname)
BuildKeys ==
  /\ "scripts" \notin keyed
  /\ normKey' = normalizeDistrictName(districtName)
  /\ scriptKey' = scriptDistrictKey(districtName)
  /\ enrollKey' = normalizeDistrictName(districtName)
  /\ builderSchoolKey' = builderKey(districtName, schoolName)
  /\ keyed' = keyed \cup {"scripts"}
  /\ UNCHANGED <<districtName, schoolName, frontNorm, frontKey, frontSchoolKey>>
  /\ UNCHANGED keyOthers

\* the frontend keys the same names to look the records up
LookupKeys ==
  /\ "frontend" \notin keyed
  /\ frontNorm' = normalizeForKey(districtName)
  /\ frontKey' = districtKey(districtName)
  /\ frontSchoolKey' = schoolKey(districtName, schoolName)
  /\ keyed' = keyed \cup {"frontend"}
  /\ UNCHANGED <<districtName, schoolName, normKey, scriptKey, enrollKey, builderSchoolKey>>
  /\ UNCHANGED keyOthers

NextKeys == BuildKeys \/ LookupKeys

SpecKeys == InitKeys /\ [][NextKeys]_vars

(***************************************************************************)
(* Budget extraction (scripts/build-budgets.ts).  Amounts are whole        *)
(* dollars; the two share thresholds are in 1/RateScale; a nullable number *)
(* is the empty sequence (null) or a sequence of one number; the rounded   *)
(* shares are in 1/ShareScale.                                             *)
(***************************************************************************)
ADMIN_SHARE_OUTLIER == 15

ADMIN_SHARE_CAP == 10

\* Math.round(share * 1e6) / 1e6
ShareScale == 1000000

Null == <<>>

Some(v) == <<v>>

\* the value of a category row, 0 when no row set it
ValueOr0(cell) == IF cell = Null THEN 0 ELSE cell[1]

Append1(flags, cond, flag) == IF cond THEN Append(flags, flag) ELSE flags

\* what extractRaw returns for a source file: null for an unreadable or empty
\* table, zeros with 'missing_fiscal_year' when no fiscal-year column is found,
\* else the amounts of the Total, District Management and Program Operations
\* Management rows (the latter two only with a second detail column)
extractRaw(f) ==
  IF f.outcome = "unreadable" THEN Null
  ELSE IF f.outcome = "no_fiscal_year"
  THEN Some([fiscalYear |-> "", totalExpenditures |-> 0, districtManagement |-> 0,
             programOpsManagement |-> 0, flags |-> <<"missing_fiscal_year">>])
  ELSE LET foundTotal == f.total # Null
           foundDM    == f.hasDetail2 /\ f.dm # Null
           foundPOM   == f.hasDetail2 /\ f.pom # Null
           f1 == Append1(<<>>, ~foundTotal, "missing_total_expenditures")
           f2 == Append1(f1, ~foundDM, "missing_district_management")
           f3 == Append1(f2, ~foundPOM, "missing_program_operations_management")
           f4 == Append1(f3, ~f.hasDetail2, "no_detail2_column")
       IN  Some([fiscalYear |-> "FY2025-26",
                 totalExpenditures |-> ValueOr0(f.total),
                 districtManagement |-> IF foundDM THEN f.dm[1] ELSE 0,
                 programOpsManagement |-> IF foundPOM THEN f.pom[1] ELSE 0,
                 flags |-> f4])

emptyBudget(flags) ==
  [fiscalYear |-> "", totalExpenditures |-> 0, centralAdministration |-> 0,
   centralAdministrationModel |-> 0, adminShareOfTotal |-> Null,
   adminShareOfTotalModel |-> Null,
   components |-> [districtManagement |-> 0, programOperationsManagement |-> 0],
   componentsModel |-> [districtManagement |-> 0, programOperationsManagement |-> 0],
   flags |-> flags]

\* Math.round(Math.min(centralAdminModel, totalExpenditures * ADMIN_SHARE_CAP))
CappedModel(sum, total) ==
  MathRound(Min2(sum * RateScale, total * ADMIN_SHARE_CAP), RateScale)

\* Math.round((num / total) * 1e6) / 1e6, in 1/ShareScale
RoundedShare(num, total) == MathRound(num * ShareScale, total)

processFile(f) ==
  LET raw == extractRaw(f)
  IN  IF raw = Null THEN emptyBudget(<<"parse_failed">>)
      ELSE
        LET total == raw[1].totalExpenditures
            dm    == raw[1].districtManagement
            pom   == raw[1].programOpsManagement
            centralAdministration == dm + pom
            g1 == Append1(raw[1].flags, centralAdministration > total /\ total > 0,
                          "admin_gt_total")
            g2 == Append1(g1, dm < 0, "district_management_negative")
            g3 == Append1(g2, pom < 0, "program_operations_management_negative")
            dmModel  == IF dm < 0 THEN 0 ELSE dm
            pomModel == IF pom < 0 THEN 0 ELSE pom
            sum      == dmModel + pomModel
            outlier  == sum * RateScale > ADMIN_SHARE_OUTLIER * total
            centralAdminModel ==
              IF total > 0
              THEN IF outlier THEN CappedModel(sum, total) ELSE sum
              ELSE Max2(0, sum)
            g4 == IF total > 0
                  THEN IF outlier
                       THEN g3 \o <<"admin_share_outlier", "admin_share_capped_model">>
                       ELSE g3
                  ELSE Append(g3, "total_expenditures_missing_or_zero")
        IN  [fiscalYear |-> raw[1].fiscalYear,
             totalExpenditures |-> total,
             centralAdministration |-> centralAdministration,
             centralAdministrationModel |-> centralAdminModel,
             adminShareOfTotal |->
               IF total > 0 THEN Some(RoundedShare(centralAdministration, total))
               ELSE Null,
             adminShareOfTotalModel |->
               IF total > 0 THEN Some(RoundedShare(centralAdminModel, total))
               ELSE Null,
             components |-> [districtManagement |-> dm,
                             programOperationsManagement |-> pom],
             componentsModel |-> [districtManagement |-> dmModel,
                                  programOperationsManagement |-> pomModel],
             flags |-> g4]

\* the amount of a category in a file: no usable row, or the amount of its row
Amounts(lo, hi) == {Null} \cup {Some(v) : v \in lo..hi}

\* source files: unreadable, without a fiscal-year column, or a table whose
\* Total row is kept only when positive and whose two management rows may be
\* negative
Files ==
  {[outcome |-> "unreadable"], [outcome |-> "no_fiscal_year"]}
  \cup [outcome : {"table"}, hasDetail2 : BOOLEAN,
        total : Amounts(1, MaxTotal),
        dm : Amounts(-1, MaxComponent),
        pom : Amounts(-1, MaxComponent)]

InitBudget ==
  /\ file \in Files
  /\ budget = <<>>
  /\ stage = "pending"
  /\ OthersIdle("budget")

\* one call of processFile on the file
ProcessFile ==
  /\ stage = "pending"
  /\ budget' = processFile(file)
  /\ stage' = "built"
  /\ UNCHANGED file
  /\ UNCHANGED budOthers

NextBudget == ProcessFile

SpecBudget == InitBudget /\ [][NextBudget]_vars

(***************************************************************************)
(* District layers (scripts/build-districts.ts): readLayer filters the     *)
(* features of one shapefile, main merges the three layers by GEOID.       *)
(* Names are token strings; a geometry is its type.                        *)
(***************************************************************************)
LAYERS ==
  << [level |-> "unified", source |-> "UNSD"],
     [level |-> "elementary", source |-> "ELSD"],
     [level |-> "secondary", source |-> "SCSD"] >>

\* variant ranking elementary above secondary
LEVEL_PRIORITY_ELEMENTARY == [unified |-> 3, secondary |-> 1, elementary |-> 2]

LEVEL_PRIORITY == [unified |-> 3, secondary |-> 2, elementary |-> 1]

LEVEL_OVERRIDES == [g \in {"4400360"} |-> "unified"]

EXCLUDED_NAMES ==
  { <<"school", " ", "district", " ", "not", " ", "defined">>,
    <<"not", " ", "defined">>,
    <<"undefined">>,
    <<"not", " ", "applicable">>,
    <<"unknown">> }

EXCLUDED_GEOIDS == {"4499997", "4499998", "4499999"}

\* haystack.includes(needle)
Includes(haystack, needle) ==
  \E i \in 1..(Len(haystack) - Len(needle) + 1) :
    SubSeq(haystack, i, i + Len(needle) - 1) = needle

isExcludedDistrict(name, geoid) ==
  LET n == ToLowerCase(Trim(name))
  IN  \/ n = <<>>
      \/ geoid \in EXCLUDED_GEOIDS
      \/ \E bad \in EXCLUDED_NAMES : n = bad \/ Includes(n, bad)

\* String(props.NAME ?? props.NAMELSAD ?? props.name ?? 'Unknown').trim()
NameOf(raw) == Trim(IF raw.NAME = Null THEN <<"Unknown">> ELSE raw.NAME[1])

\* the features readLayer returns for the raw features of one layer
readLayer(raws, layer) ==
  LET kept == SelectSeq(raws, LAMBDA f :
                /\ f.geometry \in {"Polygon", "MultiPolygon"}
                /\ ~isExcludedDistrict(NameOf(f), f.GEOID))
  IN  [i \in 1..Len(kept) |->
         [geometry |-> kept[i].geometry,
          district_name |-> NameOf(kept[i]),
          district_geoid |-> kept[i].GEOID,
          district_level |-> layer.level,
          source_layer |-> layer.source]]

\* byGeoid as the list of its values in insertion order: the place of geoid
IndexOf(map, geoid) ==
  IF \E i \in 1..Len(map) : map[i].district_geoid = geoid
  THEN CHOOSE i \in 1..Len(map) : map[i].district_geoid = geoid
  ELSE 0

\* if (!existing || LEVEL_PRIORITY[level] > LEVEL_PRIORITY[existing level])
\*   byGeoid.set(geoid, f)
SetFeature(map, f, level) ==
  LET i == IndexOf(map, f.district_geoid)
  IN  IF i = 0 THEN Append(map, f)
      ELSE IF LEVEL_PRIORITY[level] > LEVEL_PRIORITY[map[i].district_level]
           THEN [map EXCEPT ![i] = f]
           ELSE map

\* for (const f of allByLevel[i]) ...
RECURSIVE MergeLayer(_, _, _)
MergeLayer(map, feats, level) ==
  IF feats = <<>> THEN map
  ELSE MergeLayer(SetFeature(map, Head(feats), level), Tail(feats), level)

\* for (let i = LAYERS.length - 1; i >= 0; i--) ...
RECURSIVE MergeFrom(_, _, _)
MergeFrom(map, all, i) ==
  IF i = 0 THEN map
  ELSE MergeFrom(MergeLayer(map, all[i], LAYERS[i].level), all, i - 1)

\* f.properties.district_level = override
ApplyOverrides(feats) ==
  [i \in 1..Len(feats) |->
     IF feats[i].district_geoid \in DOMAIN LEVEL_OVERRIDES
     THEN [feats[i] EXCEPT !.district_level = LEVEL_OVERRIDES[feats[i].district_geoid]]
     ELSE feats[i]]

\* features of the shapefiles: two of the overridden district, one of another
\* district, and features readLayer drops for their GEOID, their name, their
\* missing name or their geometry
RawFeatures ==
  { [GEOID |-> "4400360", NAME |-> Some(<<"Exeter">>), geometry |-> "Polygon"],
    [GEOID |-> "4400360", NAME |-> Some(<<"West", " ", "Greenwich">>),
     geometry |-> "MultiPolygon"],
    [GEOID |-> "4400001", NAME |-> Some(<<"Foster">>), geometry |-> "Polygon"],
    [GEOID |-> "4499997", NAME |-> Some(<<"Foo">>), geometry |-> "Polygon"],
    [GEOID |-> "4400001",
     NAME |-> Some(<<" ", "School", " ", "District", " ", "Not", " ", "Defined">>),
     geometry |-> "Polygon"],
    [GEOID |-> "4400002", NAME |-> Some(<<"Foo">>), geometry |-> "Point"],
    [GEOID |-> "4400002", NAME |-> Null, geometry |-> "Polygon"] }

FeatureLists(n) == [1..n -> RawFeatures]

\* how many features each of the three shapefiles holds, MaxFeatures at most
\* together
LayerSizes ==
  {m \in [1..Len(LAYERS) -> 0..MaxFeatures] : m[1] + m[2] + m[3] <= MaxFeatures}

InitDistricts ==
  /\ \E n \in LayerSizes :
       rawLayers \in FeatureLists(n[1]) \X FeatureLists(n[2]) \X FeatureLists(n[3])
  /\ allByLevel = <<>>
  /\ features = <<>>
  /\ step = "start"
  /\ OthersIdle("districts")

\* allByLevel[i] = await readLayer(...) for the three layers
ReadLayers ==
  /\ step = "start"
  /\ allByLevel' = [i \in 1..Len(LAYERS) |-> readLayer(rawLayers[i], LAYERS[i])]
  /\ step' = "read"
  /\ UNCHANGED <<rawLayers, features>>
  /\ UNCHANGED distOthers

\* the merge by GEOID and the level overrides
MergeDistricts ==
  /\ step = "read"
  /\ features' = ApplyOverrides(MergeFrom(<<>>, allByLevel, Len(LAYERS)))
  /\ step' = "merged"
  /\ UNCHANGED <<rawLayers, allByLevel>>
  /\ UNCHANGED distOthers

NextDistricts == ReadLayers \/ MergeDistricts

SpecDistricts == InitDistricts /\ [][NextDistricts]_vars

(***************************************************************************)
(* Anchor builder (scripts/build-anchors.ts).  Names are token strings; a  *)
(* coordinate is in 1/CoordScale of the 1e-6 degree the output is rounded  *)
(* to; a school's enrollment is looked up in the school enrollment map     *)
(* under normalize(district) + '||' + normalize(school).                   *)
(***************************************************************************)
CoordScale == 10

\* Math.round(x * 1e6) / 1e6
RoundCoord(x) == MathRound(x, CoordScale) * CoordScale

\* CHARTER_PATTERNS and ALTERNATIVE_PATTERNS, word by word
CharterWords ==
  { <<"charter">>, <<"academy">>, <<"prep">>, <<"alternative">>,
    <<"career", " ", "tech">>, <<"career", "-", "tech">>,
    <<"career", " ", "and", " ", "tech">>, <<"tech", " ", "ctr">> }

likelyCharter(schName) == \E w \in CharterWords : Includes(ToLowerCase(schName), w)

isHighSchool(s) ==
  IF s.gradeHigh = Null THEN s.gradeBucket = "High"
  ELSE IF s.gradeHigh[1] < 12 THEN FALSE
  ELSE IF s.gradeLow # Null /\ s.gradeLow[1] >= 9 THEN TRUE
  ELSE s.gradeBucket = "High"

isElementary(s) ==
  \/ s.gradeBucket = "Elementary"
  \/ s.gradeHigh # Null /\ s.gradeHigh[1] <= 6

bucketPriority(b) ==
  CASE b = "High" -> 0
    [] b = "Middle" -> 1
    [] b = "Elementary" -> 2
    [] OTHER -> 3

\* the school names of the model in the order of localeCompare
NameOrder ==
  << <<"Bar", " ", "High">>,
     <<"Bar", " ", "High", " ", "School">>,
     <<"Baz", " ", "High">>,
     <<"Foo", " ", "Academy">>,
     <<"Foo", " ", "Elementary">>,
     <<"Foo", " ", "High", " ", "School">>,
     <<"Foo", " ", "Middle">>,
     <<"Foo", " ", "Primary">>,
     <<"Private", " ", "High">> >>

NameRank(n) == CHOOSE i \in 1..Len(NameOrder) : NameOrder[i] = n

localeCompare(a, b) == NameRank(a) - NameRank(b)

\* a.enrollment ?? -1
EnrollmentOr(c) == IF c.enrollment = Null THEN -1 ELSE c.enrollment[1]

GradeSpan(c) ==
  IF c.gradeHigh # Null /\ c.gradeLow # Null THEN c.gradeHigh[1] - c.gradeLow[1] ELSE -1

\* variant of the comparator that leaves the enrollment out
CompareNoEnrollment(a, b) ==
  IF bucketPriority(a.gradeBucket) # bucketPriority(b.gradeBucket)
  THEN bucketPriority(a.gradeBucket) - bucketPriority(b.gradeBucket)
  ELSE IF GradeSpan(b) # GradeSpan(a) THEN GradeSpan(b) - GradeSpan(a)
  ELSE localeCompare(a.name, b.name)

\* the comparator of rankCandidates: enrollment descending, then bucket
\* priority, then grade span descending, then name
Compare(a, b) ==
  IF EnrollmentOr(b) # EnrollmentOr(a) THEN EnrollmentOr(b) - EnrollmentOr(a)
  ELSE IF bucketPriority(a.gradeBucket) # bucketPriority(b.gradeBucket)
  THEN bucketPriority(a.gradeBucket) - bucketPriority(b.gradeBucket)
  ELSE IF GradeSpan(b) # GradeSpan(a) THEN GradeSpan(b) - GradeSpan(a)
  ELSE localeCompare(a.name, b.name)

\* x put into the ranked list after every entry that does not rank behind it
RankInsert(ranked, x) ==
  LET ahead == {i \in 1..Len(ranked) : Compare(ranked[i], x) <= 0}
      n == Cardinality(ahead)
  IN  SubSeq(ranked, 1, n) \o <<x>> \o SubSeq(ranked, n + 1, Len(ranked))

\* [...candidates].sort(comparator): a stable sort
RECURSIVE RankFrom(_, _)
RankFrom(ranked, rest) ==
  IF rest = <<>> THEN ranked
  ELSE RankFrom(RankInsert(ranked, Head(rest)), Tail(rest))

rankCandidates(candidates) == RankFrom(<<>>, candidates)

\* the candidates pickBest ranks
Pool(candidates) ==
  LET nonCharter == SelectSeq(candidates, LAMBDA c : ~c.likelyCharter)
      withEnrollment == SelectSeq(nonCharter, LAMBDA c :
                          c.enrollment # Null /\ c.enrollment[1] > 0)
  IN  IF Len(withEnrollment) > 0 THEN withEnrollment
      ELSE IF Len(nonCharter) > 0 THEN nonCharter
      ELSE candidates

pickBest(candidates) ==
  LET winner == rankCandidates(Pool(candidates))[1]
      f1 == Append1(<<>>, winner.enrollment = Null \/ winner.enrollment[1] <= 0,
                    "anchor_used_heuristic_no_enrollment")
      f2 == Append1(f1, winner.likelyCharter, "anchor_may_be_charter")
      f3 == Append1(f2, winner.gradeLow = Null /\ winner.gradeHigh = Null,
                    "anchor_missing_grade_span")
  IN  [winner |-> winner, flags |-> f3]

(***************************************************************************)
(* Anchor builder: main.                                                   *)
(***************************************************************************)
\* a district feature main keeps: a polygon with an interior point or, that
\* failing, a centroid
HasFallback(f) ==
  /\ f.geometry \in {"Polygon", "MultiPolygon"}
  /\ f.pointOnFeature # Null \/ f.centroid # Null

\* fallbacks.set(key, { displayName, lat, lon, geoid, flags })
FallbackOf(f) ==
  LET pt == IF f.pointOnFeature # Null THEN f.pointOnFeature[1] ELSE f.centroid[1]
  IN  [displayName |-> Trim(f.district_name),
       lat |-> pt.lat, lon |-> pt.lon,
       geoid |-> f.district_geoid,
       flags |-> IF f.pointOnFeature # Null THEN <<>> ELSE <<"used_centroid_fallback">>]

FeatureKey(f) == scriptDistrictKey(Trim(f.district_name))

\* the last of the kept district features that satisfies P
LastWith(dfs, P(_)) ==
  LET hits == {i \in 1..Len(dfs) : HasFallback(dfs[i]) /\ P(dfs[i])}
  IN  dfs[CHOOSE i \in hits : \A j \in hits : j <= i]

\* the map fallbacks after loop A
Fallbacks(dfs) ==
  [k \in {FeatureKey(dfs[i]) : i \in {j \in 1..Len(dfs) : HasFallback(dfs[j])}} |->
     FallbackOf(LastWith(dfs, LAMBDA f : FeatureKey(f) = k))]

\* the map geoidToKey after loop A
GeoidToKey(dfs) ==
  [g \in {dfs[i].district_geoid :
            i \in {j \in 1..Len(dfs) : HasFallback(dfs[j]) /\ dfs[j].district_geoid # ""}} |->
     FeatureKey(LastWith(dfs, LAMBDA f : f.district_geoid = g))]

FooDistrict == <<"Foo", " ", "School", " ", "District">>

BarDistrict == <<"Bar", " ", "Public", " ", "Schools">>

\* the rows of the school enrollment file
EnrollmentEntries ==
  { [district |-> FooDistrict, school |-> <<"Foo", " ", "High", " ", "School">>, total |-> 500],
    [district |-> FooDistrict, school |-> <<"Bar", " ", "High", " ", "School">>, total |-> 600],
    [district |-> FooDistrict, school |-> <<"Bar", " ", "High">>, total |-> 500],
    [district |-> FooDistrict, school |-> <<"Foo", " ", "Academy">>, total |-> 800],
    [district |-> FooDistrict, school |-> <<"Foo", " ", "Elementary">>, total |-> 300],
    [district |-> FooDistrict, school |-> <<"Foo", " ", "Primary">>, total |-> 0],
    [district |-> FooDistrict, school |-> <<"Foo", " ", "Middle">>, total |-> 400],
    [district |-> BarDistrict, school |-> <<"Baz", " ", "High">>, total |-> 500] }

\* the file as build-enrollment writes it, keyed by
\* normalize(distname) + '||' + normalize(schname)
enrollmentMap ==
  [k \in {builderKey(e.district, e.school) : e \in EnrollmentEntries} |->
     LET e == CHOOSE x \in EnrollmentEntries : builderKey(x.district, x.school) = k
     IN  [total |-> e.total]]

lookupEnrollment(dName, schName) ==
  LET compositeKey == builderKey(dName, schName)
  IN  IF compositeKey \in DOMAIN enrollmentMap /\ enrollmentMap[compositeKey].total > 0
      THEN Some(enrollmentMap[compositeKey].total)
      ELSE Null

\* the key a school is grouped under
SchoolDistrictKey(p, geoidToKey) ==
  IF p.district_geoid \in DOMAIN geoidToKey THEN geoidToKey[p.district_geoid]
  ELSE scriptDistrictKey(p.district_name)

\* the candidate built from a school feature
Candidate(p) ==
  [name |-> p.name, ncesId |-> p.nces_id,
   gradeLow |-> p.grades_low, gradeHigh |-> p.grades_high,
   gradeBucket |-> p.grade_bucket,
   districtGeoid |-> p.district_geoid, districtName |-> p.district_name,
   lat |-> p.lat, lon |-> p.lon,
   enrollment |-> lookupEnrollment(p.district_name, p.name),
   likelyCharter |-> likelyCharter(p.name)]

\* schoolsByKey.get(key) ?? []: the public point features grouped under key
CandidatesOf(key, sfs, geoidToKey) ==
  LET kept == SelectSeq(sfs, LAMBDA p :
                /\ p.school_type = "public"
                /\ p.geometry = "Point"
                /\ SchoolDistrictKey(p, geoidToKey) = key)
  IN  [i \in 1..Len(kept) |-> Candidate(kept[i])]

AnchorSchool(w) ==
  [name |-> w.name, ncesId |-> w.ncesId, enrollment |-> w.enrollment,
   gradeLow |-> w.gradeLow, gradeHigh |-> w.gradeHigh, gradeBucket |-> w.gradeBucket,
   districtGeoid |-> w.districtGeoid, districtName |-> w.districtName]

SchoolAnchor(fb, picked, type, flag) ==
  [displayName |-> fb.displayName,
   lat |-> RoundCoord(picked.winner.lat), lon |-> RoundCoord(picked.winner.lon),
   anchorType |-> type,
   anchorSchool |-> Some(AnchorSchool(picked.winner)),
   flags |-> Append(picked.flags, flag)]

\* variant trying the elementary candidates first
AnchorForElementaryFirst(fb, candidates) ==
  LET hsCandidates == SelectSeq(candidates, isHighSchool)
      elemCandidates == SelectSeq(candidates, isElementary)
  IN  IF Len(elemCandidates) > 0
      THEN SchoolAnchor(fb, pickBest(elemCandidates), "elementary_school",
                        "anchor_elementary_school")
      ELSE IF Len(hsCandidates) > 0
      THEN SchoolAnchor(fb, pickBest(hsCandidates), "high_school", "anchor_high_school")
      ELSE [displayName |-> fb.displayName,
            lat |-> RoundCoord(fb.lat), lon |-> RoundCoord(fb.lon),
            anchorType |-> "fallback", anchorSchool |-> Null,
            flags |-> Append(fb.flags, "anchor_fallback_no_school_candidates")]

\* the body of loop D for one district
AnchorFor(fb, candidates) ==
  LET hsCandidates == SelectSeq(candidates, isHighSchool)
      elemCandidates == SelectSeq(candidates, isElementary)
  IN  IF Len(hsCandidates) > 0
      THEN SchoolAnchor(fb, pickBest(hsCandidates), "high_school", "anchor_high_school")
      ELSE IF Len(elemCandidates) > 0
      THEN SchoolAnchor(fb, pickBest(elemCandidates), "elementary_school",
                        "anchor_elementary_school")
      ELSE [displayName |-> fb.displayName,
            lat |-> RoundCoord(fb.lat), lon |-> RoundCoord(fb.lon),
            anchorType |-> "fallback", anchorSchool |-> Null,
            flags |-> Append(fb.flags, "anchor_fallback_no_school_candidates")]

\* the anchors map main writes
buildAnchors(dfs, sfs) ==
  LET fallbacks == Fallbacks(dfs)
      geoidToKey == GeoidToKey(dfs)
  IN  [key \in DOMAIN fallbacks |->
         AnchorFor(fallbacks[key], CandidatesOf(key, sfs, geoidToKey))]

(***************************************************************************)
(* Anchor builder as a state machine: the two input files, then main.      *)
(***************************************************************************)
Point(lat, lon) == [lat |-> lat, lon |-> lon]

District(geometry, dName, geoid, pointOn, centre) ==
  [geometry |-> geometry, district_name |-> dName, district_geoid |-> geoid,
   pointOnFeature |-> pointOn, centroid |-> centre]

\* a polygon with an interior point, a multipolygon with a centroid only, a
\* feature without polygon, and a polygon for which both computations fail
DistrictList ==
  << District("Polygon", FooDistrict, "4400001", Some(Point(41853, -71437)),
              Some(Point(41800, -71400))),
     District("MultiPolygon", BarDistrict, "4400002", Null, Some(Point(41556, -71264))),
     District("Point", <<"Qux">>, "4400003", Some(Point(41000, -71000)), Null),
     District("Polygon", <<"Quux">>, "4400004", Null, Null) >>

DistrictLists == {DistrictList, SubSeq(DistrictList, 1, 1)}

School(type, geometry, schName, low, high, bucket, geoid, dName, lat) ==
  [school_type |-> type, geometry |-> geometry, name |-> schName,
   nces_id |-> "", grades_low |-> low, grades_high |-> high, grade_bucket |-> bucket,
   district_geoid |-> geoid, district_name |-> dName, lat |-> lat, lon |-> -71400]

\* schools of the first district: high schools with equal and with larger
\* enrollment, one of them with a charter-like name; an elementary school and
\* one without grade span and enrollment; a middle school; a private school; a school
\* without point geometry; and a high school of the second district matched
\* by its district name
SchoolCatalog ==
  { School("public", "Point", <<"Foo", " ", "High", " ", "School">>, Some(9), Some(12),
           "High", "4400001", FooDistrict, 41811),
    School("public", "Point", <<"Bar", " ", "High", " ", "School">>, Some(9), Some(12),
           "High", "4400001", FooDistrict, 41822),
    School("public", "Point", <<"Foo", " ", "Academy">>, Some(9), Some(12),
           "High", "4400001", FooDistrict, 41833),
    School("public", "Point", <<"Bar", " ", "High">>, Some(7), Some(12),
           "High", "4400001", FooDistrict, 41844),
    School("public", "Point", <<"Foo", " ", "Elementary">>, Some(0), Some(5),
           "Elementary", "4400001", FooDistrict, 41855),
    School("public", "Point", <<"Foo", " ", "Primary">>, Null, Null,
           "Elementary", "4400001", FooDistrict, 41866),
    School("public", "Point", <<"Foo", " ", "Middle">>, Some(6), Some(8),
           "Middle", "4400001", FooDistrict, 41877),
    School("private", "Point", <<"Private", " ", "High">>, Some(9), Some(12),
           "High", "4400001", FooDistrict, 41888),
    School("public", "Polygon", <<"Foo", " ", "Middle">>, Some(9), Some(12),
           "High", "4400001", FooDistrict, 41899),
    School("public", "Point", <<"Baz", " ", "High">>, Some(9), Some(12),
           "High", "", BarDistrict, 41501) }

SchoolLists == UNION {[1..n -> SchoolCatalog] : n \in 0..MaxSchools}

InitAnchors ==
  /\ districtFeatures \in DistrictLists
  /\ schoolFeatures \in SchoolLists
  /\ anchorsOut = <<>>
  /\ anchorStep = "start"
  /\ OthersIdle("anchors")

\* one run of main
BuildAnchors ==
  /\ anchorStep = "start"
  /\ anchorsOut' = buildAnchors(districtFeatures, schoolFeatures)
  /\ anchorStep' = "written"
  /\ UNCHANGED <<districtFeatures, schoolFeatures>>
  /\ UNCHANGED anchorOthers

NextAnchors == BuildAnchors

SpecAnchors == InitAnchors /\ [][NextAnchors]_vars

(***************************************************************************)
(* Grade buckets of the school build script: deriveGradeBucket on one      *)
(* grade span; a missing bound is Null.                                    *)
(***************************************************************************)
\* variant whose last test reads lo >= 9 alone
deriveGradeBucketLowOnly(low, high) ==
  IF low = Null /\ high = Null THEN "Other"
  ELSE LET lo == IF low = Null THEN 0 ELSE low[1]
           hi == IF high = Null THEN 12 ELSE high[1]
       IN  IF hi <= 5 \/ (lo <= 5 /\ hi <= 8) THEN "Elementary"
           ELSE IF lo >= 6 /\ hi <= 8 THEN "Middle"
           ELSE IF lo >= 9 THEN "High"
           ELSE "Other"

deriveGradeBucket(low, high) ==
  IF low = Null /\ high = Null THEN "Other"
  ELSE LET lo == IF low = Null THEN 0 ELSE low[1]
           hi == IF high = Null THEN 12 ELSE high[1]
       IN  IF hi <= 5 \/ (lo <= 5 /\ hi <= 8) THEN "Elementary"
           ELSE IF lo >= 6 /\ hi <= 8 THEN "Middle"
           ELSE IF lo >= 9 \/ hi >= 9 THEN "High"
           ELSE "Other"

\* a grade bound: missing, or an integer grade
Grades == {Null} \cup {Some(g) : g \in MinGrade..MaxGrade}

InitGrades ==
  /\ gradeLow \in Grades
  /\ gradeHigh \in Grades
  /\ gradeBucket = ""
  /\ gradeStep = "start"
  /\ OthersIdle("grades")

\* one call of deriveGradeBucket
DeriveBucket ==
  /\ gradeStep = "start"
  /\ gradeBucket' = deriveGradeBucket(gradeLow, gradeHigh)
  /\ gradeStep' = "derived"
  /\ UNCHANGED <<gradeLow, gradeHigh>>
  /\ UNCHANGED gradeOthers

NextGrades == DeriveBucket

SpecGrades == InitGrades /\ [][NextGrades]_vars

(***************************************************************************)
(* The consolidation sandbox of the app.  The app state holds the list of  *)
(* selected district keys and the three data maps, each null until its     *)
(* loader has set it; the sidebar holds the parameters of the sliders and  *)
(* memoises the estimate, which is recomputed in the render that follows   *)
(* every change of state.                                                  *)
(***************************************************************************)
\* variant that appends the key without looking for it
addKeyAlways(prev, key) == Append(prev, key)

\* prev.includes(key) of an array of keys
includesKey(prev, key) == \E i \in 1..Len(prev) : prev[i] = key

\* (prev) => (prev.includes(key) ? prev : [...prev, key])
addKey(prev, key) == IF includesKey(prev, key) THEN prev ELSE Append(prev, key)

\* (prev) => prev.filter((k) => k !== key)
removeKey(prev, key) == SelectSeq(prev, LAMBDA k : k # key)

\* Number(e.target.value) / 100 of a range input, in 1/RateScale
sliderRate(value) == (value * RateScale) \div 100

\* Math.max(0, Number(e.target.value))
sliderCost(value) == IF value < 0 THEN 0 ELSE value

\* the useMemo of the sidebar, when the render throws inside the estimator
threw == <<"threw">>

\* variant of the memo that does not look at the anchors
sandboxResultNoAnchorTest(keys, bud, enr, anc, p) ==
  IF Len(keys) < 2 \/ bud = Null \/ enr = Null
  THEN Null
  ELSE IF Raises(keys, bud, enr, anc) THEN threw
  ELSE Some(computeConsolidationV1(keys, bud, enr, anc, p))

\* const sandboxResult = useMemo(() => { ... })
sandboxResultOf(keys, bud, enr, anc, p) ==
  IF Len(keys) < 2 \/ bud = Null \/ enr = Null \/ anc = Null
  THEN Null
  ELSE IF Raises(keys, bud, enr, anc) THEN threw
  ELSE Some(computeConsolidationV1(keys, bud, enr, anc, p))

\* the state after a handler, and the render that follows it
Rendered(keys, bud, enr, anc, p) ==
  /\ sandboxDistrictKeys' = keys
  /\ appBudgets' = bud
  /\ leaEnrollment' = enr
  /\ appAnchors' = anc
  /\ consolidationParams' = p
  /\ sandboxResult' = sandboxResultOf(keys, bud, enr, anc, p)

\* the districts the sidebar offers
SandboxKeys == {"k1", "k2", "k3"}

\* the values a range input sends
SliderValues == {50, 100}

\* the values the cost input can send
CostValues == {-1, 0, 3}

\* the contents of the three data files
ServedData == {DataComplete, DataMissing}

InitSandbox ==
  /\ sandboxDistrictKeys = <<>>
  /\ appBudgets = Null /\ leaEnrollment = Null /\ appAnchors = Null
  /\ budgetsLoad = "pending" /\ enrollmentLoad = "lea" /\ anchorsLoad = "pending"
  /\ consolidationParams = [adminReductionRate |-> RateScale,
                            costPerStudentMile |-> 3,
                            affectedShare |-> RateScale]
  /\ sandboxResult = Null
  /\ served \in ServedData
  /\ lastEvent = [op |-> "mount"]
  /\ OthersIdle("sandbox")

\* addToSandbox(key), from the search results or from the map selection
AddToSandbox(key) ==
  /\ Rendered(addKey(sandboxDistrictKeys, key), appBudgets, leaEnrollment,
              appAnchors, consolidationParams)
  /\ lastEvent' = [op |-> "add", key |-> key]
  /\ UNCHANGED <<budgetsLoad, enrollmentLoad, anchorsLoad, served>>
  /\ UNCHANGED sandboxOthers

\* removeFromSandbox(key), the button of a selected district
RemoveFromSandbox(key) ==
  /\ includesKey(sandboxDistrictKeys, key)
  /\ Rendered(removeKey(sandboxDistrictKeys, key), appBudgets, leaEnrollment,
              appAnchors, consolidationParams)
  /\ lastEvent' = [op |-> "remove", key |-> key]
  /\ UNCHANGED <<budgetsLoad, enrollmentLoad, anchorsLoad, served>>
  /\ UNCHANGED sandboxOthers

\* the Clear button, disabled while the list is empty
ClearSandbox ==
  /\ Len(sandboxDistrictKeys) # 0
  /\ Rendered(<<>>, appBudgets, leaEnrollment, appAnchors, consolidationParams)
  /\ lastEvent' = [op |-> "clear"]
  /\ UNCHANGED <<budgetsLoad, enrollmentLoad, anchorsLoad, served>>
  /\ UNCHANGED sandboxOthers

\* the three inputs of the parameters
SetAdminReductionRate(value) ==
  /\ Rendered(sandboxDistrictKeys, appBudgets, leaEnrollment, appAnchors,
              [consolidationParams EXCEPT !.adminReductionRate = sliderRate(value)])
  /\ lastEvent' = [op |-> "params"]
  /\ UNCHANGED <<budgetsLoad, enrollmentLoad, anchorsLoad, served>>
  /\ UNCHANGED sandboxOthers

SetAffectedShare(value) ==
  /\ Rendered(sandboxDistrictKeys, appBudgets, leaEnrollment, appAnchors,
              [consolidationParams EXCEPT !.affectedShare = sliderRate(value)])
  /\ lastEvent' = [op |-> "params"]
  /\ UNCHANGED <<budgetsLoad, enrollmentLoad, anchorsLoad, served>>
  /\ UNCHANGED sandboxOthers

SetCostPerStudentMile(value) ==
  /\ Rendered(sandboxDistrictKeys, appBudgets, leaEnrollment, appAnchors,
              [consolidationParams EXCEPT !.costPerStudentMile = sliderCost(value)])
  /\ lastEvent' = [op |-> "params"]
  /\ UNCHANGED <<budgetsLoad, enrollmentLoad, anchorsLoad, served>>
  /\ UNCHANGED sandboxOthers

\* budgets.json arrives: setBudgets(data)
BudgetsLoaded ==
  /\ budgetsLoad = "pending"
  /\ budgetsLoad' = "loaded"
  /\ Rendered(sandboxDistrictKeys, served.budgets, leaEnrollment, appAnchors,
              consolidationParams)
  /\ lastEvent' = [op |-> "load"]
  /\ UNCHANGED <<enrollmentLoad, anchorsLoad, served>>
  /\ UNCHANGED sandboxOthers

\* the fetch of budgets.json fails: console.warn, budgets stays null
BudgetsFailed ==
  /\ budgetsLoad = "pending"
  /\ budgetsLoad' = "failed"
  /\ Rendered(sandboxDistrictKeys, appBudgets, leaEnrollment, appAnchors,
              consolidationParams)
  /\ lastEvent' = [op |-> "load"]
  /\ UNCHANGED <<enrollmentLoad, anchorsLoad, served>>
  /\ UNCHANGED sandboxOthers

\* district-anchors.json arrives: setAnchors(data)
AnchorsLoaded ==
  /\ anchorsLoad = "pending"
  /\ anchorsLoad' = "loaded"
  /\ Rendered(sandboxDistrictKeys, appBudgets, leaEnrollment, served.anchors,
              consolidationParams)
  /\ lastEvent' = [op |-> "load"]
  /\ UNCHANGED <<budgetsLoad, enrollmentLoad, served>>
  /\ UNCHANGED sandboxOthers

\* the fetch of district-anchors.json fails: console.warn, anchors stays null
AnchorsFailed ==
  /\ anchorsLoad = "pending"
  /\ anchorsLoad' = "failed"
  /\ Rendered(sandboxDistrictKeys, appBudgets, leaEnrollment, appAnchors,
              consolidationParams)
  /\ lastEvent' = [op |-> "load"]
  /\ UNCHANGED <<budgetsLoad, enrollmentLoad, served>>
  /\ UNCHANGED sandboxOthers

\* the district enrollment file arrives: load() goes on to the school file
LeaFetched ==
  /\ enrollmentLoad = "lea"
  /\ enrollmentLoad' = "school"
  /\ Rendered(sandboxDistrictKeys, appBudgets, leaEnrollment, appAnchors,
              consolidationParams)
  /\ lastEvent' = [op |-> "load"]
  /\ UNCHANGED <<budgetsLoad, anchorsLoad, served>>
  /\ UNCHANGED sandboxOthers

\* the school enrollment file arrives: setLeaEnrollment(lea)
SchoolFetched ==
  /\ enrollmentLoad = "school"
  /\ enrollmentLoad' = "loaded"
  /\ Rendered(sandboxDistrictKeys, appBudgets, served.enrollments, appAnchors,
              consolidationParams)
  /\ lastEvent' = [op |-> "load"]
  /\ UNCHANGED <<budgetsLoad, anchorsLoad, served>>
  /\ UNCHANGED sandboxOthers

\* either enrollment fetch fails: setEnrollmentLoadError(msg)
EnrollmentFailed ==
  /\ enrollmentLoad \in {"lea", "school"}
  /\ enrollmentLoad' = "failed"
  /\ Rendered(sandboxDistrictKeys, appBudgets, leaEnrollment, appAnchors,
              consolidationParams)
  /\ lastEvent' = [op |-> "load"]
  /\ UNCHANGED <<budgetsLoad, anchorsLoad, served>>
  /\ UNCHANGED sandboxOthers

NextSandbox ==
  \/ \E key \in SandboxKeys : AddToSandbox(key)
  \/ \E key \in SandboxKeys : RemoveFromSandbox(key)
  \/ ClearSandbox
  \/ \E value \in SliderValues : SetAdminReductionRate(value)
  \/ \E value \in SliderValues : SetAffectedShare(value)
  \/ \E value \in CostValues : SetCostPerStudentMile(value)
  \/ BudgetsLoaded
  \/ BudgetsFailed
  \/ AnchorsLoaded
  \/ AnchorsFailed
  \/ LeaFetched
  \/ SchoolFetched
  \/ EnrollmentFailed

SpecSandbox == InitSandbox /\ [][NextSandbox]_vars

(***************************************************************************)
(* The school list of the app.  Every change of the filters or of the      *)
(* search box gives a new loadSchools, and the effect that depends on it   *)
(* sends a request to /api/schools unless the districts are still loading; *)
(* each response is put into the schools state when it arrives.  The       *)
(* server filters the schools by type, grade bucket and name; its fuzzy    *)
(* name search is modeled as the name containing the query.                *)
(***************************************************************************)
ServerSchool(name, type, bucket) ==
  [name |-> name, school_type |-> type, grade_bucket |-> bucket]

\* data.features of the server
ServerSchools ==
  << ServerSchool(<<"foo", " ", "high">>, "public", "High"),
     ServerSchool(<<"bar", " ", "elementary">>, "public", "Elementary"),
     ServerSchool(<<"foo", " ", "academy">>, "private", "High") >>

\* the elements of a sequence
Elements(s) == {s[i] : i \in 1..Len(s)}

\* app.get('/api/schools', ...): the features of the response
listSchools(req) ==
  LET byType == IF Len(req.type) = 0 THEN <<>>
                ELSE SelectSeq(ServerSchools,
                               LAMBDA f : f.school_type \in Elements(req.type))
      byGrade == IF req.grade = Null THEN byType
                 ELSE SelectSeq(byType,
                                LAMBDA f : f.grade_bucket \in Elements(req.grade[1]))
      q == IF req.q = Null THEN <<>> ELSE ToLowerCase(Trim(req.q[1]))
  IN  IF q = <<>> THEN byGrade
      ELSE SelectSeq(byGrade, LAMBDA f : Includes(f.name, q))

\* the query string loadSchools builds from the filters and the search box
requestOf(f, query) ==
  [type |-> (IF f.public THEN <<"public">> ELSE <<>>)
              \o (IF f.private THEN <<"private">> ELSE <<>>),
   grade |-> IF Len(f.grade) # 0 THEN Some(f.grade) ELSE Null,
   q |-> IF Trim(query) # <<>> THEN Some(Trim(query)) ELSE Null]

\* toggleGrade(g): the grade list with g taken out, or put at the end
toggledGrade(grade, g) ==
  IF g \in Elements(grade) THEN SelectSeq(grade, LAMBDA x : x # g)
  ELSE Append(grade, g)

\* what can be typed into the search box
Queries == {<<>>, <<"foo">>, <<"foo", " ">>}

\* the grade buckets of the filter panel
GradeBoxes == {"High"}

InitList ==
  /\ loading = TRUE
  /\ filters = [public |-> FALSE, private |-> FALSE, grade |-> <<>>]
  /\ searchQuery = <<>>
  /\ inFlight = {}
  /\ schools = Null
  /\ issued = 0
  /\ failed = {}
  /\ OthersIdle("list")

\* the effect on [loading, loadSchools]: if (!loading) loadSchools()
LoadSchoolsEffect(isLoading, f, query) ==
  IF isLoading
  THEN UNCHANGED <<inFlight, issued>>
  ELSE /\ issued < MaxRequests
       /\ issued' = issued + 1
       /\ inFlight' = inFlight \cup {[id |-> issued + 1, request |-> requestOf(f, query)]}

\* loadDistricts settles: setLoading(false), and the effect runs
DistrictsSettled ==
  /\ loading
  /\ loading' = FALSE
  /\ LoadSchoolsEffect(FALSE, filters, searchQuery)
  /\ UNCHANGED <<filters, searchQuery, schools, failed>>
  /\ UNCHANGED listOthers

\* the checkbox of the public schools: setFilters, and the effect after it
TogglePublic ==
  /\ filters' = [filters EXCEPT !.public = ~filters.public]
  /\ LoadSchoolsEffect(loading, filters', searchQuery)
  /\ UNCHANGED <<loading, searchQuery, schools, failed>>
  /\ UNCHANGED listOthers

\* the checkbox of the private schools
TogglePrivate ==
  /\ filters' = [filters EXCEPT !.private = ~filters.private]
  /\ LoadSchoolsEffect(loading, filters', searchQuery)
  /\ UNCHANGED <<loading, searchQuery, schools, failed>>
  /\ UNCHANGED listOthers

\* the checkbox of a grade bucket
ToggleGrade(g) ==
  /\ filters' = [filters EXCEPT !.grade = toggledGrade(filters.grade, g)]
  /\ LoadSchoolsEffect(loading, filters', searchQuery)
  /\ UNCHANGED <<loading, searchQuery, schools, failed>>
  /\ UNCHANGED listOthers

\* typing into the search box
SetSearchQuery(query) ==
  /\ query # searchQuery
  /\ searchQuery' = query
  /\ LoadSchoolsEffect(loading, filters, query)
  /\ UNCHANGED <<loading, filters, schools, failed>>
  /\ UNCHANGED listOthers

\* the request in flight with this number
InFlight(id) == CHOOSE r \in inFlight : r.id = id

\* the response of a request arrives: setSchools(data)
SchoolsArrive(id) ==
  /\ \E r \in inFlight : r.id = id
  /\ inFlight' = inFlight \ {InFlight(id)}
  /\ schools' = Some(listSchools(InFlight(id).request))
  /\ UNCHANGED <<loading, filters, searchQuery, issued, failed>>
  /\ UNCHANGED listOthers

\* a request fails: loadSchools throws before setSchools
SchoolsFail(id) ==
  /\ \E r \in inFlight : r.id = id
  /\ inFlight' = inFlight \ {InFlight(id)}
  /\ failed' = failed \cup {id}
  /\ UNCHANGED <<loading, filters, searchQuery, schools, issued>>
  /\ UNCHANGED listOthers

NextList ==
  \/ DistrictsSettled
  \/ TogglePublic
  \/ TogglePrivate
  \/ \E g \in GradeBoxes : ToggleGrade(g)
  \/ \E query \in Queries : SetSearchQuery(query)
  \/ \E id \in 1..MaxRequests : SchoolsArrive(id)
  \/ \E id \in 1..MaxRequests : SchoolsFail(id)

SpecList == InitList /\ [][NextList]_vars

(***************************************************************************)
(* Vocabulary of the properties.                                           *)
(***************************************************************************)
Done == pc = "done"

\* the set of selected keys
SelSet == {selectedKeys[i] : i \in 1..Len(selectedKeys)}

\* position of the first occurrence of k in the selection
FirstIndex(k) == CHOOSE i \in 1..Len(selectedKeys) :
                   /\ selectedKeys[i] = k
                   /\ \A j \in 1..(i - 1) : selectedKeys[j] # k

\* the elements of a list
Elems(s) == {s[i] : i \in 1..Len(s)}

\* s lists keys of the selection in selection order, none twice
InSelectionOrder(s) ==
  \A i, j \in 1..Len(s) : i < j => FirstIndex(s[i]) < FirstIndex(s[j])

NoBudget(k) == k \notin DOMAIN budgets

NoAnchor(k) == k \notin DOMAIN anchors

NoEnrollment(k) == k \notin DOMAIN enrollments

\* no enrollment record, or a total that is undefined or not > 0
NoPositiveTotal(k) ==
  \/ NoEnrollment(k)
  \/ "total" \notin DOMAIN enrollments[k]
  \/ ~(enrollments[k].total > 0)

\* every numeric field of r is 0, there is no hub and no breakdown
Unpopulated(r) ==
  /\ r.hubKey = "" /\ r.hubName = "" /\ r.spokeBreakdown = <<>>
  /\ r.combinedEnrollment = 0 /\ r.combinedSpending = 0
  /\ r.hubSpending = 0 /\ r.spokesSpending = 0
  /\ r.adminBaselineHub = 0 /\ r.adminBaselineSpokes = 0
  /\ r.adminSavings = 0 /\ r.transportationIncrease = 0 /\ r.netImpact = 0
  /\ r.projectedSpending = 0
  /\ \A q \in {r.baselinePerPupil, r.projectedPerPupil,
               r.adminSavingsPctCombined, r.transportIncreasePctCombined,
               r.netImpactPctCombined, r.adminSavingsPctSpokesSpending,
               r.transportIncreasePctSpokesSpending,
               r.netImpactPctSpokesSpending} : q.n = 0

\* sum of f over the finite set S
RECURSIVE SumOver(_, _)
SumOver(S, f) ==
  IF S = {} THEN 0
  ELSE LET x == CHOOSE y \in S : TRUE IN f[x] + SumOver(S \ {x}, f)

(***************************************************************************)
(* C1                                                                      *)
(***************************************************************************)
\* C1: in every ok result netImpact is adminSavings - transportationIncrease
\* and projectedSpending is combinedSpending - netImpact, with no rounding.
C1_NetImpactIdentity ==
  (Done /\ result.ok) =>
    /\ result.netImpact = result.adminSavings - result.transportationIncrease
    /\ result.projectedSpending = result.combinedSpending - result.netImpact

\* an ok result whose savings and transport cost are both positive and whose
\* net impact is not a whole number of dollars
C1_Witness ==
  /\ Done /\ result.ok
  /\ result.adminSavings > 0 /\ result.transportationIncrease > 0
  /\ result.netImpact % MoneyScale # 0

(***************************************************************************)
(* C2                                                                      *)
(***************************************************************************)
\* C2: the hub is a selected key, no selected district has a larger enrollment
\* total, and every key selected before the hub has a strictly smaller total.
C2_HubIsFirstLargest ==
  (Done /\ result.ok) =>
    /\ result.hubKey \in SelSet
    /\ \A k \in SelSet :
         /\ enrollments[result.hubKey].total >= enrollments[k].total
         /\ FirstIndex(k) < FirstIndex(result.hubKey)
              => enrollments[k].total < enrollments[result.hubKey].total

\* an ok result where another selected district ties with the hub and the hub is
\* not the first selected key
C2_Witness ==
  /\ Done /\ result.ok
  /\ FirstIndex(result.hubKey) > 1
  /\ \E k \in SelSet \ {result.hubKey} :
       enrollments[k].total = enrollments[result.hubKey].total

(***************************************************************************)
(* C3                                                                      *)
(***************************************************************************)
\* every selected key is named in the missing list of each map it is absent from
AbsentKeysListed ==
  \A k \in SelSet :
    /\ NoBudget(k) => k \in Elems(result.missing.budgets)
    /\ NoEnrollment(k) => k \in Elems(result.missing.enrollment)
    /\ NoAnchor(k) => k \in Elems(result.missing.anchors)

SomeKeyAbsent == \E k \in SelSet : NoBudget(k) \/ NoEnrollment(k) \/ NoAnchor(k)

\* C3 as stated: for every selectedKeys list, a selected key absent from one of
\* the maps gives ok = false, zeroed fields, and the key in the matching lists.
C3_AsStated ==
  (Done /\ SomeKeyAbsent) =>
    ~result.ok /\ Unpopulated(result) /\ AbsentKeysListed

\* C3, amended: a selected key absent from one of the maps gives ok = false and
\* zeroed fields for every selectedKeys list, and the key is in the matching
\* missing lists when the selection holds at least 2 distinct keys.
C3_MissingShortCircuit ==
  (Done /\ SomeKeyAbsent) =>
    /\ ~result.ok
    /\ Unpopulated(result)
    /\ Cardinality(SelSet) >= 2 => AbsentKeysListed

\* two selected keys lack an anchor and one of them lacks a budget too
C3_Witness ==
  /\ Done
  /\ Cardinality({k \in SelSet : NoAnchor(k)}) >= 2
  /\ \E k \in SelSet : NoAnchor(k) /\ NoBudget(k) /\ NoEnrollment(k)
  /\ Len(result.missing.anchors) >= 2

(***************************************************************************)
(* C4                                                                      *)
(***************************************************************************)
\* C4: with fewer than 2 distinct selected keys the result is ok = false, the
\* only warning is 'Select at least 2 districts', the three missing lists are
\* empty and every numeric field is 0, whatever the maps hold.
C4_TooFewSelected ==
  (Done /\ Cardinality(SelSet) < 2) =>
    /\ ~result.ok
    /\ result.warnings = <<SelectWarning>>
    /\ result.missing.budgets = <<>>
    /\ result.missing.enrollment = <<>>
    /\ result.missing.anchors = <<>>
    /\ Unpopulated(result)

\* one key, repeated, that is in none of the three maps
C4_Witness ==
  /\ Done /\ Len(selectedKeys) >= 2 /\ Cardinality(SelSet) = 1
  /\ \A k \in SelSet : NoBudget(k) /\ NoEnrollment(k) /\ NoAnchor(k)

(***************************************************************************)
(* C5                                                                      *)
(***************************************************************************)
\* C5: for at least 2 distinct keys, missing.budgets, missing.anchors and
\* missing.enrollment are exactly the selected keys without budget, without
\* anchor, and without an enrollment total > 0, each in selection order without
\* duplicates, and ok holds exactly when all three are empty.
C5_MissingLists ==
  (Done /\ Cardinality(SelSet) >= 2) =>
    /\ Elems(result.missing.budgets) = {k \in SelSet : NoBudget(k)}
    /\ Elems(result.missing.anchors) = {k \in SelSet : NoAnchor(k)}
    /\ Elems(result.missing.enrollment) = {k \in SelSet : NoPositiveTotal(k)}
    /\ InSelectionOrder(result.missing.budgets)
    /\ InSelectionOrder(result.missing.anchors)
    /\ InSelectionOrder(result.missing.enrollment)
    /\ result.ok <=> /\ result.missing.budgets = <<>>
                     /\ result.missing.anchors = <<>>
                     /\ result.missing.enrollment = <<>>

\* a selection with a repeated key where a district with total 0 and one with no
\* enrollment record are both reported, and exactly one key lacks a budget
C5_Witness ==
  /\ Done /\ Len(selectedKeys) > Cardinality(SelSet)
  /\ \E k \in SelSet : ~NoEnrollment(k) /\ "total" \in DOMAIN enrollments[k]
                        /\ enrollments[k].total = 0
  /\ Len(result.missing.enrollment) = 2
  /\ Len(result.missing.budgets) = 1
  /\ Len(result.missing.anchors) = 1

(***************************************************************************)
(* C6                                                                      *)
(***************************************************************************)
\* p with each parameter moved into its valid range
InRange(p) ==
  [adminReductionRate |->
     IF p.adminReductionRate < 0 THEN 0
     ELSE IF p.adminReductionRate > RateScale THEN RateScale
     ELSE p.adminReductionRate,
   costPerStudentMile |->
     IF p.costPerStudentMile < 0 THEN 0 ELSE p.costPerStudentMile,
   affectedShare |->
     IF p.affectedShare < 0 THEN 0
     ELSE IF p.affectedShare > RateScale THEN RateScale
     ELSE p.affectedShare]

ResultFor(p) == computeConsolidationV1(selectedKeys, budgets, enrollments, anchors, p)

\* C6: the result for params p is the result for p clamped; a rate of 5 gives
\* the result of 1 and a rate of -1 the result of 0; and adminSavings lies
\* between 0 and adminBaselineSpokes when no spoke has a negative modeled admin
\* figure.
C6_ParamsClamped ==
  Done =>
    /\ result = ResultFor(InRange(params))
    /\ params.adminReductionRate = 5 * RateScale
         => result = ResultFor([params EXCEPT !.adminReductionRate = RateScale])
    /\ params.adminReductionRate = -RateScale
         => result = ResultFor([params EXCEPT !.adminReductionRate = 0])
    /\ (result.ok /\ \A k \in SelSet \ {result.hubKey} :
                        budgets[k].centralAdministrationModel >= 0)
         => /\ result.adminSavings >= 0
            /\ result.adminSavings <= result.adminBaselineSpokes

\* an ok result for a rate of 5 and a share above 1, with spoke admin spend and
\* transport cost at stake
C6_Witness ==
  /\ Done /\ result.ok
  /\ params.adminReductionRate = 5 * RateScale
  /\ params.affectedShare > RateScale
  /\ result.adminBaselineSpokes > 0
  /\ result.transportationIncrease > 0

(***************************************************************************)
(* C7                                                                      *)
(***************************************************************************)
\* C7: in every ok result spokeBreakdown is in descending order of cost.
C7_BreakdownSorted ==
  (Done /\ result.ok) =>
    \A i \in 1..(Len(result.spokeBreakdown) - 1) :
      result.spokeBreakdown[i].cost >= result.spokeBreakdown[i + 1].cost

\* an ok result with two spokes of different cost, where the costlier spoke was
\* selected after the cheaper one
C7_Witness ==
  /\ Done /\ result.ok
  /\ Len(result.spokeBreakdown) >= 2
  /\ result.spokeBreakdown[1].cost > result.spokeBreakdown[2].cost
  /\ FirstIndex(result.spokeBreakdown[1].key) > FirstIndex(result.spokeBreakdown[2].key)

(***************************************************************************)
(* C8                                                                      *)
(***************************************************************************)
\* the selected keys, each at the place of its first occurrence
FirstOccurrences ==
  LET keep == {i \in 1..Len(selectedKeys) :
                 \A j \in 1..(i - 1) : selectedKeys[j] # selectedKeys[i]}
      nth(n) == CHOOSE i \in keep : Cardinality({j \in keep : j < i}) = n - 1
  IN  [n \in 1..Cardinality(keep) |-> selectedKeys[nth(n)]]

NoRepeats(s) == \A i, j \in 1..Len(s) : s[i] = s[j] => i = j

\* C8: the result for selectedKeys is the result for its distinct keys in order
\* of first occurrence; a repeated key counts once in combinedEnrollment,
\* combinedSpending, the missing lists, the warnings and spokeBreakdown.
C8_Deduplicated ==
  Done =>
    /\ result = computeConsolidationV1(FirstOccurrences, budgets, enrollments,
                                       anchors, params)
    /\ NoRepeats(result.missing.budgets)
    /\ NoRepeats(result.missing.enrollment)
    /\ NoRepeats(result.missing.anchors)
    /\ Cardinality(SelSet) >= 2 =>
         Len(SelectSeq(result.warnings, LAMBDA w : w.kind = "flag"))
           = SumOver(SelSet \cap DOMAIN budgets,
                     [k \in DOMAIN budgets |-> Len(budgets[k].flags)])
    /\ result.ok =>
         /\ result.combinedEnrollment
              = SumOver(SelSet, [k \in SelSet |-> enrollments[k].total])
         /\ result.combinedSpending
              = SumOver(SelSet, [k \in SelSet |->
                                   budgets[k].totalExpenditures * MoneyScale])
         /\ Len(result.spokeBreakdown) = Cardinality(SelSet) - 1
         /\ NoRepeats([i \in 1..Len(result.spokeBreakdown) |->
                         result.spokeBreakdown[i].key])

\* an ok result for a selection that repeats a flagged district
C8_Witness ==
  /\ Done /\ result.ok
  /\ Len(selectedKeys) > Cardinality(SelSet)
  /\ \E i, j \in 1..Len(selectedKeys) :
       /\ i # j /\ selectedKeys[i] = selectedKeys[j]
       /\ budgets[selectedKeys[i]].flags # <<>>

(***************************************************************************)
(* C9                                                                      *)
(***************************************************************************)
\* C9: adminBaselineHub is the hub's modeled admin spend, adminBaselineSpokes
\* the sum of the modeled admin spend of the other selected districts, and
\* adminSavings the clamped rate times adminBaselineSpokes.
C9_AdminSavings ==
  (Done /\ result.ok) =>
    /\ result.adminBaselineHub
         = budgets[result.hubKey].centralAdministrationModel * MoneyScale
    /\ result.adminBaselineSpokes
         = SumOver(SelSet \ {result.hubKey},
                   [k \in SelSet |-> budgets[k].centralAdministrationModel * MoneyScale])
    /\ result.adminSavings * RateScale
         = InRange(params).adminReductionRate * result.adminBaselineSpokes

\* an ok result with two spokes, a hub with admin spend of its own and a rate
\* strictly between 0 and 1
C9_Witness ==
  /\ Done /\ result.ok
  /\ Cardinality(SelSet) >= 3
  /\ result.adminBaselineHub > 0
  /\ result.adminSavings > 0
  /\ result.adminSavings < result.adminBaselineSpokes

(***************************************************************************)
(* C10                                                                     *)
(***************************************************************************)
\* distance x enrollment x clamped share x clamped cost per student-mile
ExpectedCost(k) ==
  milesBetween(anchors[k], anchors[result.hubKey]) * enrollments[k].total
    * InRange(params).affectedShare * InRange(params).costPerStudentMile

\* C10: transportationIncrease is the sum of the per-spoke costs, and it is 0,
\* like every spokeBreakdown cost, when costPerStudentMile or affectedShare
\* is 0 or negative.
C10_TransportIncrease ==
  (Done /\ result.ok) =>
    /\ result.transportationIncrease
         = SumOver(SelSet \ {result.hubKey}, [k \in SelSet |-> ExpectedCost(k)])
    /\ (params.costPerStudentMile <= 0 \/ params.affectedShare <= 0)
         => /\ result.transportationIncrease = 0
            /\ \A i \in 1..Len(result.spokeBreakdown) :
                 result.spokeBreakdown[i].cost = 0

\* an ok result with two spokes away from the hub, a share below 1 and a
\* positive cost per student-mile
C10_Witness ==
  /\ Done /\ result.ok
  /\ Len(result.spokeBreakdown) >= 2
  /\ \A i \in 1..Len(result.spokeBreakdown) : result.spokeBreakdown[i].cost > 0
  /\ params.affectedShare > 0 /\ params.affectedShare < RateScale
  /\ params.costPerStudentMile > 0

(***************************************************************************)
(* C11                                                                     *)
(***************************************************************************)
\* every selected key has a budget, an anchor and a positive enrollment total
AllDataPresent == \A k \in SelSet : ~NoBudget(k) /\ ~NoAnchor(k) /\ ~NoPositiveTotal(k)

\* the spokes, in selection order, more than 60 miles from the hub
FarSpokes ==
  SelectSeq(FirstOccurrences,
            LAMBDA k : /\ k # result.hubKey
                       /\ milesBetween(anchors[k], anchors[result.hubKey])
                            > 60 * DistScale)

DistanceEntries == SelectSeq(result.warnings, LAMBDA w : w.kind = "distance")

RECURSIVE FlagPairs(_)
FlagPairs(s) ==
  IF s = <<>> THEN <<>>
  ELSE LET k == Head(s)
       IN  (IF NoBudget(k) THEN <<>>
            ELSE [i \in 1..Len(budgets[k].flags) |->
                    <<budgets[k].displayName, budgets[k].flags[i]>>])
             \o FlagPairs(Tail(s))

FlagEntries == SelectSeq(result.warnings, LAMBDA w : w.kind = "flag")

\* C12: for at least 2 distinct keys, warnings holds '<displayName>: <flag>'
\* for every flag of every distinct selected key with a budget, in selection
\* order then flag order, in the ok = false result as in the ok = true result,
\* where these entries come before the distance warnings.
C12_FlagWarnings ==
  (Done /\ Cardinality(SelSet) >= 2) =>
    /\ [i \in 1..Len(FlagEntries) |-> <<FlagEntries[i].name, FlagEntries[i].flag>>]
         = FlagPairs(FirstOccurrences)
    /\ result.warnings = FlagEntries \o DistanceEntries

\* an ok result whose warnings hold the flags of two districts, one of them
\* with two flags, followed by a distance warning
C12_Witness ==
  /\ Done /\ result.ok
  /\ Len(DistanceEntries) >= 1
  /\ Len(FlagEntries) >= 3
  /\ \E i, j \in 1..Len(FlagEntries) : FlagEntries[i].name # FlagEntries[j].name

(***************************************************************************)
(* C13                                                                     *)
(***************************************************************************)
\* num / den, or 0 when den is 0
GuardedQuotient(q, num, den) ==
  IF den # 0 THEN q.n = num /\ q.d = den ELSE q.n = 0 /\ q.d # 0

C14_CombinedTotals ==
  (Done /\ result.ok) =>
    /\ result.combinedEnrollment
         = SumOver(SelSet, [k \in SelSet |-> enrollments[k].total])
    /\ result.combinedSpending
         = SumOver(SelSet, [k \in SelSet |-> budgets[k].totalExpenditures * MoneyScale])
    /\ GuardedQuotient(result.baselinePerPupil,
                       result.combinedSpending, result.combinedEnrollment)
    /\ GuardedQuotient(result.projectedPerPupil,
                       result.projectedSpending, result.combinedEnrollment)

\* an ok result over three districts where the first selected one is a spoke
\* with spending of its own, and the projection differs from the baseline
C14_Witness ==
  /\ Done /\ result.ok
  /\ Cardinality(SelSet) >= 3
  /\ result.hubKey # selectedKeys[1]
  /\ budgets[selectedKeys[1]].totalExpenditures > 0
  /\ result.projectedSpending # result.combinedSpending

(***************************************************************************)
(* C15                                                                     *)
(***************************************************************************)
\* C15: every call returns and none throws; a selected key without budget,
\* without anchor or without positive enrollment total gives ok = false, so an
\* ok result has read only records that exist.
C15_NeverThrows ==
  /\ [](/\ pc # "raised"
        /\ (Done /\ Cardinality(SelSet) >= 2 /\ ~AllDataPresent) => ~result.ok
        /\ (Done /\ result.ok) => AllDataPresent)
  /\ [][pc = "ready" => pc' = "done"]_vars

\* a returned ok = false result for a selection of at least 2 keys, one of
\* which is in none of the maps while another is complete
C15_Witness ==
  /\ Done /\ ~result.ok
  /\ \E k \in SelSet : NoBudget(k) /\ NoAnchor(k) /\ NoEnrollment(k)
  /\ \E k \in SelSet : ~NoBudget(k) /\ ~NoAnchor(k) /\ ~NoPositiveTotal(k)

(***************************************************************************)
(* Vocabulary of the key properties.                                       *)
(***************************************************************************)
BuildDone == "scripts" \in keyed

LookupDone == "frontend" \in keyed

\* the token c occurs in s
Occurs(c, s) == \E i \in 1..Len(s) : s[i] = c

\* s without its last n tokens
DropLast(s, n) == SubSeq(s, 1, Len(s) - n)

(***************************************************************************)
(* C16                                                                     *)
(***************************************************************************)
\* C16: normalizing a normalized name changes nothing, for the scripts'
\* normalizeDistrictName and for the frontend's normalizeForKey.
C16_Idempotent ==
  /\ BuildDone => normalizeDistrictName(normKey) = normKey
  /\ LookupDone => normalizeForKey(frontNorm) = frontNorm

(***************************************************************************)
(* C17                                                                     *)
(***************************************************************************)
\* the first suffix of the list sufs that t ends with, or the empty string
FirstSuffixOf(t, sufs) ==
  LET hits == {i \in 1..Len(sufs) : EndsWith(t, sufs[i])}
  IN  IF hits = {} THEN <<>>
      ELSE sufs[CHOOSE i \in hits : \A j \in hits : i <= j]

\* C17: the key is the cleaned name less one organisational suffix, the first
\* of ' regional school district', ' school district', ' public schools' it
\* ends with, and then less one level suffix, the first of ' elementary',
\* ' secondary' the rest ends with; nothing more is removed.
C17_OneSuffixPerGroup ==
  (BuildDone /\ districtName # <<>>) =>
    LET c   == Clean(districtName)
        org == FirstSuffixOf(c, suffixes)
        mid == DropLast(c, Len(org))
        lvl == FirstSuffixOf(mid, levelSuffixes)
    IN  /\ normKey = DropLast(mid, Len(lvl))
        /\ normKey \o lvl \o org = c
        /\ EndsWith(c, suffixes[1]) => org = suffixes[1]

\* a name ending in ' regional school district' whose key still ends in
\* ' public schools'
C17_Witness ==
  /\ BuildDone
  /\ EndsWith(Clean(districtName), suffixes[1])
  /\ EndsWith(normKey, suffixes[3])

(***************************************************************************)
(* C18                                                                     *)
(***************************************************************************)
\* C18: the key the frontend looks a district up by is the key the build
\* scripts store its budget and anchor under and the key the enrollment builder
\* stores its enrollment under.
C18_KeysAgree ==
  (BuildDone /\ LookupDone) =>
    /\ frontKey = scriptKey
    /\ frontKey = enrollKey

(***************************************************************************)
(* C19                                                                     *)
(***************************************************************************)
\* lower-case words and single interior spaces only
WellFormedKey(k) ==
  /\ \A i \in 1..Len(k) :
       /\ k[i] # "|"
       /\ IsWord(k[i]) \/ k[i] = " "
       /\ LowerToken(k[i]) = k[i]
       /\ (k[i] = " " /\ i < Len(k)) => k[i + 1] # " "
  /\ k # <<>> => k[1] # " " /\ k[Len(k)] # " "

\* the places where '||' starts in k
SeparatorsIn(k) == {i \in 1..(Len(k) - 1) : k[i] = "|" /\ k[i + 1] = "|"}

\* k holds '||' once, between the two components d and s
SplitsAs(k, d, s) ==
  /\ SeparatorsIn(k) = {Len(d) + 1}
  /\ SubSeq(k, 1, Len(d)) = d
  /\ SubSeq(k, Len(d) + 3, Len(k)) = s

\* C19: normalized names hold no '|', only lower-case words and single
\* interior spaces; every school key holds '||' exactly once, between the
\* district key and the normalized school name, so equal school keys have
\* equal components.
C19_SeparatorReserved ==
  /\ BuildDone =>
       /\ WellFormedKey(normKey)
       /\ WellFormedKey(normalizeDistrictName(schoolName))
       /\ SplitsAs(builderSchoolKey, normKey, normalizeDistrictName(schoolName))
  /\ LookupDone =>
       /\ WellFormedKey(frontNorm)
       /\ WellFormedKey(frontKey)
       /\ WellFormedKey(normalizeForKey(schoolName))
       /\ SplitsAs(frontSchoolKey, frontKey, normalizeForKey(schoolName))

\* both sides have keyed a district name with a '|' in it and a school name
\* with '||' in it
C19_Witness ==
  /\ BuildDone /\ LookupDone
  /\ Occurs("|", districtName)
  /\ SeparatorsIn(schoolName) # {}
  /\ normKey # <<>>

(***************************************************************************)
(* C20                                                                     *)
(***************************************************************************)
Built == stage = "built"

\* the sum of the two extracted components, each negative one taken as 0
ClampedSum(b) ==
  Max2(0, b.components.districtManagement)
  + Max2(0, b.components.programOperationsManagement)

\* the budget is one whose clamped sum exceeds ADMIN_SHARE_OUTLIER of a
\* positive total
IsOutlier(b) ==
  /\ b.totalExpenditures > 0
  /\ ClampedSum(b) * RateScale > ADMIN_SHARE_OUTLIER * b.totalExpenditures

\* the modeled spend is never negative
ModelNonNegative == Built => budget.centralAdministrationModel >= 0

\* an outlier's modeled spend is the whole dollar nearest ADMIN_SHARE_CAP of
\* the total (a half rounds up) and both flags are added; any other budget with
\* a positive total keeps its clamped sum and gets neither flag
CapApplied ==
  Built =>
    LET b == budget
        d == b.centralAdministrationModel * RateScale
             - ADMIN_SHARE_CAP * b.totalExpenditures
    IN  /\ IsOutlier(b) =>
             /\ 2 * d <= RateScale /\ 2 * d > -RateScale
             /\ InSeq("admin_share_outlier", b.flags)
             /\ InSeq("admin_share_capped_model", b.flags)
        /\ (b.totalExpenditures > 0 /\ ~IsOutlier(b)) =>
             /\ b.centralAdministrationModel = ClampedSum(b)
             /\ ~InSeq("admin_share_outlier", b.flags)
             /\ ~InSeq("admin_share_capped_model", b.flags)

\* the modeled share of a budget with a positive total is at most
\* ADMIN_SHARE_OUTLIER
ShareWithinOutlier ==
  (Built /\ budget.totalExpenditures > 0) =>
    budget.centralAdministrationModel * RateScale
      <= ADMIN_SHARE_OUTLIER * budget.totalExpenditures

\* C20: centralAdministrationModel is never negative; when totalExpenditures
\* is positive and the clamped sum exceeds 15% of it, the modeled value is 10%
\* of totalExpenditures rounded to a whole dollar and both outlier flags are
\* added; so the modeled share of every budget with a positive total is at
\* most 15%.
C20_ModeledAdminCapped ==
  /\ ModelNonNegative
  /\ CapApplied
  /\ ShareWithinOutlier

(***************************************************************************)
(* C25                                                                     *)
(***************************************************************************)
\* the chain of replacements with the parenthetical step deleted
CleanWithoutParens(s) ==
  Trim(CollapseSpace(StripPunct(ReplaceDash(ReplaceAmp(Trim(ToLowerCase(s)))))))

NormalizeWithoutParens(s) == StripLevelSuffix(StripOrgSuffix(CleanWithoutParens(s)))

\* s holds a parenthesized aside: a '(' with a ')' after it
HasAside(s) ==
  \E i \in 1..Len(s) : s[i] = "(" /\ \E j \in (i + 1)..Len(s) : s[j] = ")"

\* C25: the parenthetical step changes no output of normalizeDistrictName or
\* normalizeForKey: the key is what the normalizer without that step gives, and
\* the word inside a parenthesized aside stays in the key.
C25_ParensStepNoOp ==
  /\ BuildDone =>
       /\ normKey = NormalizeWithoutParens(districtName)
       /\ Occurs("Bar", districtName) => Occurs("bar", normKey)
  /\ LookupDone =>
       /\ frontNorm = NormalizeWithoutParens(districtName)
       /\ Occurs("Bar", districtName) => Occurs("bar", frontNorm)

\* a name with a parenthesized aside whose word is in both keys
C25_Witness ==
  /\ BuildDone /\ LookupDone
  /\ HasAside(districtName)
  /\ Occurs("bar", normKey) /\ Occurs("bar", frontNorm)

(***************************************************************************)
(* C26                                                                     *)
(***************************************************************************)
\* the keys of the spokeBreakdown entries, in order
BreakdownKeys == [i \in 1..Len(result.spokeBreakdown) |-> result.spokeBreakdown[i].key]

\* C26: an ok result over n distinct keys has n - 1 spokeBreakdown entries,
\* one for each distinct selected key other than hubKey, none for the hub, and
\* transportationIncrease is the sum of the costs of those keys alone.
C26_SpokesExcludeHub ==
  (Done /\ result.ok) =>
    /\ Len(result.spokeBreakdown) = Cardinality(SelSet) - 1
    /\ Elems(BreakdownKeys) = SelSet \ {result.hubKey}
    /\ NoRepeats(BreakdownKeys)
    /\ result.hubKey \in SelSet
    /\ \A i \in 1..Len(BreakdownKeys) : BreakdownKeys[i] # result.hubKey
    /\ result.transportationIncrease
         = SumOver(Elems(BreakdownKeys), [k \in SelSet |-> ExpectedCost(k)])

\* an ok result for three distinct keys with a positive transport cost
C26_Witness ==
  /\ Done /\ result.ok
  /\ Cardinality(SelSet) = 3
  /\ Len(result.spokeBreakdown) = 2
  /\ result.transportationIncrease > 0

(***************************************************************************)
(* C27                                                                     *)
(***************************************************************************)
\* the rearrangements of the list s
Rearrangements(s) ==
  {[i \in 1..Len(s) |-> s[p[i]]] :
     p \in {q \in [1..Len(s) -> 1..Len(s)] : \A i, j \in 1..Len(s) : q[i] = q[j] => i = j}}

\* the selected keys have pairwise distinct enrollment totals
DistinctTotals ==
  \A j, k \in SelSet : j # k => enrollments[j].total # enrollments[k].total

\* the figures and the set of breakdown entries of the results a and b agree
SameFigures(a, b) ==
  /\ a.ok = b.ok
  /\ a.hubKey = b.hubKey
  /\ a.combinedEnrollment = b.combinedEnrollment
  /\ a.combinedSpending = b.combinedSpending
  /\ a.adminBaselineSpokes = b.adminBaselineSpokes
  /\ a.adminSavings = b.adminSavings
  /\ a.transportationIncrease = b.transportationIncrease
  /\ a.netImpact = b.netImpact
  /\ Elems(a.spokeBreakdown) = Elems(b.spokeBreakdown)

\* a and b differ at most in the order of warnings and of breakdown entries
\* of equal cost
SameUpToOrder(a, b) ==
  /\ [a EXCEPT !.warnings = <<>>, !.spokeBreakdown = <<>>]
       = [b EXCEPT !.warnings = <<>>, !.spokeBreakdown = <<>>]
  /\ Elems(a.warnings) = Elems(b.warnings)
  /\ Len(a.warnings) = Len(b.warnings)
  /\ Elems(a.spokeBreakdown) = Elems(b.spokeBreakdown)
  /\ \A i \in 1..Len(a.spokeBreakdown) :
       a.spokeBreakdown[i].cost = b.spokeBreakdown[i].cost

Merged == step = "merged"

\* the GEOIDs of the features read from layer i
GeoidsOf(i) == {allByLevel[i][j].district_geoid : j \in 1..Len(allByLevel[i])}

\* the layers in the order unified > secondary > elementary
LayersByPriority == <<1, 3, 2>>

\* the first layer, in the order of priority, that holds geoid
BestLayer(geoid) ==
  LET n == CHOOSE m \in 1..3 :
             /\ geoid \in GeoidsOf(LayersByPriority[m])
             /\ \A l \in 1..(m - 1) : geoid \notin GeoidsOf(LayersByPriority[l])
  IN  LayersByPriority[n]

\* f is a feature read from layer i, whatever level the override gave it
TakenFrom(f, i) ==
  \E j \in 1..Len(allByLevel[i]) :
    [f EXCEPT !.district_level = LAYERS[i].level] = allByLevel[i][j]

\* C21: every GEOID read from at least one of the three layers has exactly
\* one merged feature, taken from the unified layer if that holds the GEOID,
\* else from the secondary layer, else from the elementary layer; features of
\* different GEOIDs stay separate features.
C21_MergeByPriority ==
  Merged =>
    /\ {features[i].district_geoid : i \in 1..Len(features)}
         = GeoidsOf(1) \cup GeoidsOf(2) \cup GeoidsOf(3)
    /\ \A i, j \in 1..Len(features) :
         features[i].district_geoid = features[j].district_geoid => i = j
    /\ Len(features) = Cardinality(GeoidsOf(1) \cup GeoidsOf(2) \cup GeoidsOf(3))
    /\ \A i \in 1..Len(features) :
         LET best == BestLayer(features[i].district_geoid)
         IN  /\ features[i].source_layer = LAYERS[best].source
             /\ TakenFrom(features[i], best)

\* a GEOID read from the secondary and the elementary layer but not from the
\* unified one, merged next to a feature of another GEOID
C21_Witness ==
  /\ Merged
  /\ \E g \in GeoidsOf(2) \cap GeoidsOf(3) : g \notin GeoidsOf(1)
  /\ Len(features) = 2

(***************************************************************************)
(* C22                                                                     *)
(***************************************************************************)
Written == anchorStep = "written"

\* the districts of the file that have a polygon and a point to fall back on
AnchoredDistricts ==
  {i \in 1..Len(districtFeatures) : HasFallback(districtFeatures[i])}

\* the public schools of the file that belong to district i, by its GEOID or,
\* for a GEOID of no district, by its name
SchoolsIn(i) ==
  LET d == districtFeatures[i]
      known == {districtFeatures[j].district_geoid : j \in AnchoredDistricts}
  IN  {n \in 1..Len(schoolFeatures) :
         LET p == schoolFeatures[n]
         IN  /\ p.school_type = "public" /\ p.geometry = "Point"
             /\ \/ p.district_geoid = d.district_geoid
                \/ /\ p.district_geoid \notin known
                   /\ scriptDistrictKey(p.district_name) = FeatureKey(d)}

\* the grades of a school feature, as its candidate holds them
GradesOf(p) ==
  [gradeLow |-> p.grades_low, gradeHigh |-> p.grades_high,
   gradeBucket |-> p.grade_bucket]

HighSchoolsIn(i) == {n \in SchoolsIn(i) : isHighSchool(GradesOf(schoolFeatures[n]))}

ElementariesIn(i) == {n \in SchoolsIn(i) : isElementary(GradesOf(schoolFeatures[n]))}

AnchorOfDistrict(i) == anchorsOut[FeatureKey(districtFeatures[i])]

CandidateSet(ns) == {Candidate(schoolFeatures[n]) : n \in ns}

\* the enrollment of a candidate or anchor school, an unknown one counting 0
KnownEnrollment(c) == IF c.enrollment = Null THEN 0 ELSE c.enrollment[1]

\* the candidates the anchor is chosen among: those without a charter-like
\* name that have an enrollment, else those without a charter-like name, else
\* all
PreferredPool(cands) ==
  LET plain == {c \in cands : ~c.likelyCharter}
      counted == {c \in plain : c.enrollment # Null}
  IN  IF counted # {} THEN counted ELSE IF plain # {} THEN plain ELSE cands

\* the candidates district i is anchored among
AnchorLevelCandidates(i) ==
  IF AnchorOfDistrict(i).anchorType = "high_school"
  THEN CandidateSet(HighSchoolsIn(i))
  ELSE CandidateSet(ElementariesIn(i))

Derived == gradeStep = "derived"

\* C24: the bucket is 'Other' exactly when both grade bounds are missing;
\* with a bound present it is 'Elementary', 'Middle' or 'High', and it is the
\* bucket of the span with a missing low read as 0 and a missing high as 12.
C24_OtherOnlyWhenMissing ==
  Derived =>
    /\ gradeBucket = "Other" <=> (gradeLow = Null /\ gradeHigh = Null)
    /\ (gradeLow # Null \/ gradeHigh # Null) =>
         /\ gradeBucket \in {"Elementary", "Middle", "High"}
         /\ gradeBucket = deriveGradeBucket(IF gradeLow = Null THEN Some(0) ELSE gradeLow,
                                            IF gradeHigh = Null THEN Some(12) ELSE gradeHigh)

\* a span from grade 6 or above to grade 9 or above, which only the test of
\* the high bound puts into 'High'
C24_Witness ==
  /\ Derived
  /\ gradeLow # Null /\ gradeHigh # Null
  /\ gradeLow[1] >= 6 /\ gradeLow[1] < 9 /\ gradeHigh[1] >= 9
  /\ gradeBucket = "High"

\* no key occurs twice in the list
NoRepeat(list) ==
  \A i, j \in 1..Len(list) : list[i] = list[j] => i = j

\* list without its i-th element
DropAt(list, i) == SubSeq(list, 1, i - 1) \o SubSeq(list, i + 1, Len(list))

\* the handler that has just run is op
Ran(op) == lastEvent'.op = op

\* C28: starting from the empty list, the sandbox list never holds a key
\* twice; adding a key already in the list leaves the list as it is and adding
\* another key puts it at the end, removing a key takes it out and keeps the
\* other keys in their order, and Clear empties the list.
C28_SandboxList ==
  /\ [](NoRepeat(sandboxDistrictKeys))
  /\ [][/\ Ran("add") =>
             LET key == lastEvent'.key
             IN  IF \E i \in 1..Len(sandboxDistrictKeys) : sandboxDistrictKeys[i] = key
                 THEN sandboxDistrictKeys' = sandboxDistrictKeys
                 ELSE sandboxDistrictKeys' = sandboxDistrictKeys \o <<key>>
        /\ Ran("remove") =>
             LET key == lastEvent'.key
             IN  /\ \A i \in 1..Len(sandboxDistrictKeys') : sandboxDistrictKeys'[i] # key
                 /\ \E i \in 1..Len(sandboxDistrictKeys) :
                      /\ sandboxDistrictKeys[i] = key
                      /\ sandboxDistrictKeys' = DropAt(sandboxDistrictKeys, i)
        /\ Ran("clear") => sandboxDistrictKeys' = <<>>]_vars

\* a key has been removed from between two others, which kept their order
C28_Witness ==
  /\ lastEvent = [op |-> "remove", key |-> "k2"]
  /\ sandboxDistrictKeys = <<"k3", "k1">>

\* the three loaders have set their maps
AllLoaded ==
  /\ budgetsLoad = "loaded" /\ appBudgets # Null
  /\ enrollmentLoad = "loaded" /\ leaEnrollment # Null
  /\ anchorsLoad = "loaded" /\ appAnchors # Null

\* the estimate of the selected keys from the contents of the data files
EstimateOfFiles ==
  computeConsolidationV1(sandboxDistrictKeys, served.budgets, served.enrollments,
                         served.anchors, consolidationParams)

\* C29: in every state of the app, whatever the order in which the three
\* loads complete or fail and the keys are added or removed, sandboxResult is
\* null unless at least two keys are selected and the three maps are loaded;
\* when they are loaded and at least two keys are selected, sandboxResult is
\* the estimator's result for the current keys and parameters.
C29_EstimateOnlyWhenReady ==
  /\ sandboxResult # Null => Len(sandboxDistrictKeys) >= 2 /\ AllLoaded
  /\ Len(sandboxDistrictKeys) >= 2 /\ AllLoaded =>
       sandboxResult = Some(EstimateOfFiles)

\* the last of the loads has completed with two keys already selected, and
\* the estimate is there
C29_Witness ==
  /\ lastEvent.op = "load"
  /\ Len(sandboxDistrictKeys) = 2
  /\ AllLoaded
  /\ sandboxResult # Null
  /\ sandboxResult[1].ok

\* the app is showing the list and waits for no response
Settled == ~loading /\ inFlight = {}

\* the request sent last got its response
LatestAnswered == issued >= 1 /\ issued \notin failed

\* what the server answers to the present filters and search box
FreshSchools == Some(listSchools(requestOf(filters, searchQuery)))

\* C30: when the filters or the search box changed while an earlier request
\* was in flight, then once every request has completed the schools state
\* holds the response to the present filters and search box; a late response
\* to an older request does not take the place of a newer one.
C30_LatestResponseShown ==
  Settled /\ LatestAnswered => schools = FreshSchools

====
